---- MODULE Spec2Model ----
(***************************************************************************)
(* Token resolution and report aggregation of the Nansen token bot:        *)
(* the input parser (src/core/parser.ts), the token resolver               *)
(* (src/core/resolver.ts) and the report builder (src/core/lookup.ts).     *)
(*                                                                         *)
(* Optional values (T | null | undefined) are sequences of length <= 1:    *)
(* NULL is <<>> and a present value v is <<v>>.                            *)
(***************************************************************************)
EXTENDS Integers, Sequences, FiniteSets, TLC

VARIABLES
  \* ---- report builder (buildTokenReport) ----
  buildPc,            \* "idle" | "awaiting" | "done" | "thrown"
  token,              \* the ResolvedToken argument (NULL or <<token>>)
  tokenInfoResult,    \* settled result of nansen.getTokenInfo
  flowsResult,        \* settled result of nansen.getFlowIntelligence
  smartMoneyResult,   \* settled result of nansen.getSmartMoneyBuySell
  cgResult,           \* settled result of fetchCoinGeckoData
  cgStage,            \* fetchCoinGeckoData's position: "first" | "detail"
  report,             \* the returned TokenReport (NULL or <<report>>)
  \* ---- token resolver (resolveToken) ----
  resolvePc,          \* "idle" | "search" | "candidates" | "address" | "screener" |
                      \* "done" | "failed"
  parsed,             \* the ParsedInput argument (NULL or <<parsed>>)
  screener,           \* what the analytics token screener knows of the symbol
                      \* (NULL or <<item>>)
  searchStatus,       \* the search exchange: "" (not made) | "throw" | "notok" | "ok"
  coins,              \* data.coins of the search response
  candidates,         \* the sorted candidate list
  idx,                \* index of the loop in progress (candidate or chain)
  detailLog,          \* coin ids for which a coin-detail request was made, in order
  contractLog,        \* lookup-by-contract requests made, in order: [chain, hit]
  resolved,           \* the returned ResolvedToken (NULL or <<token>>)
  resolveError,       \* the error thrown ("" when none)
  \* ---- message text (isTokenQuery, parseUserInput) ----
  parserPc,           \* "received" | "gated" | "parsed"
  message,            \* the message text
  gateResult,         \* what isTokenQuery(message) returned
  parseResult,        \* what parseUserInput(message) returned (NULL or <<parsed>>)
  extractResult,      \* what extractTokenQuery(message) returned (NULL or <<query>>)
  \* ---- Telegram bot (key store, query guard, handlers) ----
  keyStore,           \* keys.json: user id -> NULL or <<[apiKey, dmOnly, queryCount, lastQueryAt, allowedUsers]>>
  queryLog,           \* rate limiter: user id -> timestamps of recorded queries
  inFlight,           \* rate limiter: user ids with a query marked as running
  clock,              \* Date.now() in milliseconds
  handlers,           \* the update handlers that can be suspended at an await
  updatesLeft,        \* updates still to arrive (NULL: no limit)
  \* ---- Twitter bot (usage counters, scheduled scan, mention poll) ----
  tier,               \* opts.tier
  dryRun,             \* opts.dryRun
  tweetsToday,        \* state.tweetsToday of the usage counters
  tweetsThisMonth,    \* state.tweetsThisMonth
  tweetsPosted,       \* tweets the Twitter API has accepted from the bot
  scanPc,             \* runScheduledScan: "idle" | "scanning"
  pollPc,             \* runMentionPoll: "idle" | "mention" | "replying" | "posting"
  mentionsLeft,       \* mentions of the fetched page not yet handled
  partsLeft,          \* tweets of the reply thread not yet posted
  \* ---- watchlist scanner (scoreReport, scanWatchlist) ----
  scorePc,            \* "idle" | "given" | "scored"
  scoreInput,         \* the TokenReport given to scoreReport (NULL or <<report>>)
  scoreOutput,        \* what scoreReport returned (NULL or <<[score, signals]>>)
  watchPc,            \* scanWatchlist: "idle" | "next" | "building" | "sleeping" | "returned"
  watchTokens,        \* tokens.length
  watchMinScore,      \* the minScore argument
  watchI,             \* the loop index i (0-based)
  watchOutcomes,      \* what buildTokenReport settled to, per token scanned so far
  watchResults,       \* the results array
  watchInFlight,      \* indices whose buildTokenReport has started and not settled
  watchEvents,        \* what the call has done so far, in order
  \* ---- smart-money section (buildSmartMoneySection) ----
  sectionPc,          \* "idle" | "given" | "built"
  sectionData,        \* the argument (NULL or <<[buyers, sellers]>>)
  sectionOut,         \* the returned SmartMoneySection (NULL or <<section>>)
  \* ---- scheduled tweets (twitter/state.ts dedup) ----
  dedupPc,            \* runScheduledScan after the scan: "idle" | "generating"
  dedupClock,         \* hours elapsed
  recentTweets,       \* state.recentTweets: sequence of [symbol, tweetedAt]
  freshResults,       \* symbols of the scan results that passed the dedup filter
  tweetLog,           \* scheduled tweets posted so far: sequence of [symbol, at]
  \* ---- NansenClient.post ----
  postPc,             \* "idle" | "fetching" | "sleeping" | "returned" | "thrown"
  postAttempt,        \* the loop variable attempt
  postLog,            \* fetches and sleeps of the request so far, in order
  postResult,         \* what the request returned or threw (NULL before)
  \* ---- mention poll (runMentionPoll and the saved lastMentionId) ----
  mentionPc,          \* position of runMentionPoll: idle, loop, saving
  lastMentionId,      \* lastMentionId of the saved Twitter state (NULL: none)
  mentionCount,       \* mentions of the bot so far; their ids are 1..mentionCount
  mentionPage,        \* the fetched page of mention ids
  mentionPos,         \* index in mentionPage of the mention the loop is at
  newestId            \* newestId of runMentionPoll

buildVars == <<buildPc, token, tokenInfoResult, flowsResult, smartMoneyResult,
               cgResult, cgStage, report>>

resolveVars == <<resolvePc, parsed, screener, searchStatus, coins, candidates, idx, detailLog, contractLog,
                 resolved, resolveError>>

parserVars == <<parserPc, message, gateResult, parseResult, extractResult>>

telegramVars == <<keyStore, queryLog, inFlight, clock, handlers, updatesLeft>>

twitterVars == <<tier, dryRun, tweetsToday, tweetsThisMonth, tweetsPosted, scanPc, pollPc,
                 mentionsLeft, partsLeft>>

scoreVars == <<scorePc, scoreInput, scoreOutput>>

watchVars == <<watchPc, watchTokens, watchMinScore, watchI, watchOutcomes, watchResults,
               watchInFlight, watchEvents>>

sectionVars == <<sectionPc, sectionData, sectionOut>>

scannerVars == <<scoreVars, watchVars, sectionVars>>

dedupVars == <<dedupPc, dedupClock, recentTweets, freshResults, tweetLog>>

postVars == <<postPc, postAttempt, postLog, postResult>>

mentionVars == <<mentionPc, lastMentionId, mentionCount, mentionPage, mentionPos, newestId>>

vars == <<buildVars, resolveVars, parserVars, telegramVars, twitterVars, scannerVars, dedupVars, postVars, mentionVars>>

\* What the actions of one component leave alone
nonBuildVars == <<resolveVars, parserVars, telegramVars, twitterVars, scannerVars,
  dedupVars,
  postVars,
  mentionVars>>
nonResolveVars == <<buildVars, parserVars, telegramVars, twitterVars, scannerVars,
  dedupVars,
  postVars,
  mentionVars>>
nonParserVars == <<buildVars, resolveVars, telegramVars, twitterVars, scannerVars,
  dedupVars,
  postVars,
  mentionVars>>
nonTelegramVars == <<buildVars, resolveVars, parserVars, twitterVars, scannerVars,
  dedupVars,
  postVars,
  mentionVars>>
nonTwitterVars == <<buildVars, resolveVars, parserVars, telegramVars, scannerVars,
  dedupVars,
  postVars,
  mentionVars>>
nonScoreVars == <<buildVars, resolveVars, parserVars, telegramVars, twitterVars, watchVars,
                  sectionVars,
  dedupVars,
  postVars,
  mentionVars>>
nonWatchVars == <<buildVars, resolveVars, parserVars, telegramVars, twitterVars, scoreVars,
                  sectionVars,
  dedupVars,
  postVars,
  mentionVars>>
nonSectionVars == <<buildVars, resolveVars, parserVars, telegramVars, twitterVars, scoreVars,
                    watchVars,
  dedupVars,
  postVars,
  mentionVars>>
nonDedupVars == <<buildVars, resolveVars, parserVars, telegramVars, twitterVars, scannerVars,
  postVars,
  mentionVars>>
nonPostVars == <<buildVars, resolveVars, parserVars, telegramVars, twitterVars, scannerVars, dedupVars,
  mentionVars>>
nonMentionVars == <<buildVars, resolveVars, parserVars, telegramVars, twitterVars, scannerVars, dedupVars, postVars>>

----------------------------------------------------------------------------
(* Optional values *)

NULL == <<>>

Some(v) == <<v>>

\* a ?? b
Coalesce(a, b) == IF a # NULL THEN a ELSE b

\* JavaScript truthiness of an optional number: present and non-zero
TruthyNum(a) == a # NULL /\ a[1] # 0

\* Opt(S): null or a value of S
Opt(S) == {NULL} \cup {Some(v) : v \in S}

----------------------------------------------------------------------------
(* Promise.allSettled results *)

Pending == [status |-> "pending", value |-> NULL]

Rejected == [status |-> "rejected", value |-> NULL]

Fulfilled(v) == [status |-> "fulfilled", value |-> v]

\* result.status === 'fulfilled' ? result.value : null
ValueOf(r) == IF r.status = "fulfilled" THEN r.value ELSE NULL

\* Promise.all instead of Promise.allSettled: the first rejection rejects the join
JoinRejectsFailFast(rs) == \E i \in 1..Len(rs) : rs[i].status = "rejected"

\* Does the join of the four calls reject?  Promise.allSettled never does.
JoinRejects(rs) == FALSE

----------------------------------------------------------------------------
(* src/core/lookup.ts: market-data (CoinGecko) fetch *)

\* Map Nansen chain names to CoinGecko platform IDs
CHAIN_TO_CG_PLATFORM ==
  [ethereum |-> "ethereum", solana |-> "solana", base |-> "base",
   bnb |-> "binance-smart-chain", arbitrum |-> "arbitrum-one",
   polygon |-> "polygon-pos", optimism |-> "optimistic-ethereum",
   avalanche |-> "avalanche", tron |-> "tron", fantom |-> "fantom",
   blast |-> "blast", scroll |-> "scroll", linea |-> "linea",
   mantle |-> "mantle", ronin |-> "ronin", sei |-> "sei-v2",
   zksync |-> "zksync", unichain |-> "unichain", sonic |-> "sonic",
   iotaevm |-> "iota-evm", hyperevm |-> "hyperevm", near |-> "near-protocol",
   starknet |-> "starknet", sui |-> "sui", ton |-> "the-open-network",
   plasma |-> "plasma", monad |-> "monad"]

\* The addresses the tables use
NativeAddr == "0xeeeeeeeeeeeeeeeeeeeeeeeeeeeeeeeeeeeeeeee"
WbtcAddr == "0x2260fac5e5542a773aa44fbcfedf7c193bc2c599"
WsolAddr == "So11111111111111111111111111111111111111112"
SuiAddr == "0x0000000000000000000000000000000000000000000000000000000000000002::sui::SUI"

\* Well-known native token addresses -> CoinGecko coin IDs, keyed by <<chain, address>>
NATIVE_CG_IDS ==
  (<<"ethereum", NativeAddr>> :> "ethereum") @@
  (<<"ethereum", WbtcAddr>> :> "bitcoin") @@
  (<<"solana", WsolAddr>> :> "solana") @@
  (<<"bnb", NativeAddr>> :> "binancecoin") @@
  (<<"avalanche", NativeAddr>> :> "avalanche-2") @@
  (<<"polygon", NativeAddr>> :> "matic-network") @@
  (<<"fantom", NativeAddr>> :> "fantom") @@
  (<<"hyperevm", NativeAddr>> :> "hyperliquid") @@
  (<<"tron", NativeAddr>> :> "tron") @@
  (<<"mantle", NativeAddr>> :> "mantle") @@
  (<<"sonic", NativeAddr>> :> "sonic-3") @@
  (<<"sei", NativeAddr>> :> "sei-network") @@
  (<<"monad", NativeAddr>> :> "monad") @@
  (<<"ton", NativeAddr>> :> "the-open-network") @@
  (<<"sui", "0x2::sui::SUI">> :> "sui") @@
  (<<"sui", SuiAddr>> :> "sui") @@
  (<<"near", "wrap.near">> :> "near")

\* An HTTP exchange: fetch() throws, answers non-OK, or answers OK with a body
HttpThrow == [status |-> "throw", body |-> NULL]
HttpNotOk == [status |-> "notok", body |-> NULL]
HttpOk(b) == [status |-> "ok", body |-> b]

\* entry.x && entry.x > 0 ? entry.x : null
PositiveOrNull(a) == IF TruthyNum(a) /\ a[1] > 0 THEN a ELSE NULL

\* The record both simple endpoints build from data[key]
SimpleEntryData(entry) ==
  [priceUsd       |-> entry.usd,
   marketCapUsd   |-> PositiveOrNull(entry.usd_market_cap),
   fdvUsd         |-> NULL,
   volume24hUsd   |-> PositiveOrNull(entry.usd_24h_vol),
   priceChange24h |-> entry.usd_24h_change]

\* if (entry && entry.usd)
SimpleEntryUsable(res) ==
  /\ res.status = "ok"
  /\ res.body # NULL
  /\ TruthyNum(res.body[1].usd)

\* fetchCoinGeckoByCoinId: res is the /simple/price exchange
fetchCoinGeckoByCoinId(res) ==
  IF SimpleEntryUsable(res) THEN Some(SimpleEntryData(res.body[1])) ELSE NULL

\* fetchCoinGeckoByContract, detailed endpoint: detail is the
\* /coins/{platform}/contract/{address} exchange
DetailData(detail) ==
  IF detail.status # "ok" THEN NULL
  ELSE IF detail.body = NULL THEN NULL      \* no market_data
  ELSE Some([priceUsd       |-> detail.body[1].current_price,
             marketCapUsd   |-> detail.body[1].market_cap,
             fdvUsd         |-> detail.body[1].fully_diluted_valuation,
             volume24hUsd   |-> detail.body[1].total_volume,
             priceChange24h |-> detail.body[1].price_change_percentage_24h])

\* token.coingeckoId || NATIVE_CG_IDS[`${token.chain}:${token.address}`]
CgIdOf(t) ==
  IF t.coingeckoId # NULL /\ t.coingeckoId[1] # "" THEN t.coingeckoId
  ELSE IF <<t.chain, t.address>> \in DOMAIN NATIVE_CG_IDS
       THEN Some(NATIVE_CG_IDS[<<t.chain, t.address>>])
       ELSE NULL

----------------------------------------------------------------------------
(* src/core/lookup.ts: report assembly *)

\* tokenInfo?.field ?? null
FieldOf(rec, f) == IF rec = NULL THEN NULL ELSE rec[1][f]

\* Looking at the prices only
determineDataSourcePriceOnly(nansen, cg) ==
  LET hasNansen == nansen # NULL /\ nansen[1].price # NULL
      hasCG == cg # NULL /\ cg[1].priceUsd # NULL
  IN  IF hasNansen /\ hasCG THEN "both"
      ELSE IF hasNansen THEN "nansen"
      ELSE IF hasCG THEN "coingecko"
      ELSE "none"

\* determineDataSource
determineDataSource(nansen, cg) ==
  LET hasNansen == nansen # NULL /\
                   (nansen[1].price # NULL \/ nansen[1].market_cap # NULL)
      hasCG == cg # NULL /\ (cg[1].priceUsd # NULL \/ cg[1].marketCapUsd # NULL)
  IN  IF hasNansen /\ hasCG THEN "both"
      ELSE IF hasNansen THEN "nansen"
      ELSE IF hasCG THEN "coingecko"
      ELSE "none"

\* Milliseconds per day: 1000 * 60 * 60 * 24
DayMs == 86400000

\* computeTokenAge: a date string is [valid, ms]; now is Date.now()
computeTokenAge(deploymentDate, now) ==
  IF deploymentDate = NULL THEN NULL
  ELSE IF ~deploymentDate[1].valid THEN NULL
  ELSE Some((now - deploymentDate[1].ms) \div DayMs)

\* buildNansenUrl
buildNansenUrl(t) ==
  <<"https://app.nansen.ai/token-god-mode?tokenAddress=", t.address, "&chain=", t.chain>>

\* extractFlows: the six segments in their fixed order
extractFlows(data) ==
  << [name |-> "Smart Traders", netFlowUsd |-> data.smart_trader_net_flow_usd,
      avgFlowUsd |-> data.smart_trader_avg_flow_usd,
      walletCount |-> data.smart_trader_wallet_count],
     [name |-> "Whales", netFlowUsd |-> data.whale_net_flow_usd,
      avgFlowUsd |-> data.whale_avg_flow_usd,
      walletCount |-> data.whale_wallet_count],
     [name |-> "Public Figures", netFlowUsd |-> data.public_figure_net_flow_usd,
      avgFlowUsd |-> data.public_figure_avg_flow_usd,
      walletCount |-> data.public_figure_wallet_count],
     [name |-> "Exchanges", netFlowUsd |-> data.exchange_net_flow_usd,
      avgFlowUsd |-> data.exchange_avg_flow_usd,
      walletCount |-> data.exchange_wallet_count],
     [name |-> "Top PnL Traders", netFlowUsd |-> data.top_pnl_net_flow_usd,
      avgFlowUsd |-> data.top_pnl_avg_flow_usd,
      walletCount |-> data.top_pnl_wallet_count],
     [name |-> "Fresh Wallets", netFlowUsd |-> data.fresh_wallets_net_flow_usd,
      avgFlowUsd |-> data.fresh_wallets_avg_flow_usd,
      walletCount |-> data.fresh_wallets_wallet_count] >>

----------------------------------------------------------------------------
(* src/core/lookup.ts: smart-money section *)

\* (x || 0) of an optional number
OrZero(a) == IF TruthyNum(a) THEN a[1] ELSE 0

\* Counting the zero volumes too
IsNotNegative(a) == a # NULL /\ a[1] >= 0

\* x > 0 of an optional number (undefined > 0 is false)
IsPositive(a) == a # NULL /\ a[1] > 0

\* list.reduce((sum, t) => sum + (t[f] || 0), 0)
RECURSIVE SumVolume(_, _)
SumVolume(list, f) ==
  IF list = <<>> THEN 0
  ELSE OrZero(Head(list)[f]) + SumVolume(Tail(list), f)

\* list.filter(t => t[f] > 0)
RECURSIVE FilterPositive(_, _)
FilterPositive(list, f) ==
  IF list = <<>> THEN <<>>
  ELSE IF IsPositive(Head(list)[f])
       THEN <<Head(list)>> \o FilterPositive(Tail(list), f)
       ELSE FilterPositive(Tail(list), f)

\* Insert t into a list sorted descending by f, after every entry that is >= t
RECURSIVE InsertDesc(_, _, _)
InsertDesc(t, sorted, f) ==
  IF sorted = <<>> THEN <<t>>
  ELSE IF Head(sorted)[f][1] >= t[f][1]
       THEN <<Head(sorted)>> \o InsertDesc(t, Tail(sorted), f)
       ELSE <<t>> \o sorted

\* list.sort((a, b) => b[f] - a[f]): stable, descending
RECURSIVE SortDesc(_, _)
SortDesc(list, f) ==
  IF list = <<>> THEN <<>>
  ELSE InsertDesc(list[Len(list)], SortDesc(SubSeq(list, 1, Len(list) - 1), f), f)

\* How many top traders a side shows: slice(0, 3)
TopN == 3

\* list.slice(0, n)
Slice(list, n) == SubSeq(list, 1, IF Len(list) < n THEN Len(list) ELSE n)

\* shortenAddress: addresses and labels are sequences of characters
shortenAddress(addr) ==
  IF Len(addr) <= 10 THEN addr
  ELSE SubSeq(addr, 1, 6) \o <<".", ".", ".">> \o SubSeq(addr, Len(addr) - 3, Len(addr))

\* t.address_label || shortenAddress(t.address)   (<<>> is the empty or missing label)
LabelOf(t) == IF t.address_label # <<>> THEN t.address_label ELSE shortenAddress(t.address)

\* The top-3 list of one side
TopTraders(list, f, side) ==
  LET top == Slice(SortDesc(FilterPositive(list, f), f), TopN)
  IN  [i \in 1..Len(top) |->
         [label |-> LabelOf(top[i]), volumeUsd |-> top[i][f][1], side |-> side]]

\* buildSmartMoneySection
buildSmartMoneySection(data) ==
  IF data = NULL
  THEN [buySell |-> NULL, topBuyers |-> <<>>, topSellers |-> <<>>]
  ELSE LET boughtVolumeUsd == SumVolume(data[1].buyers, "bought_volume_usd")
           soldVolumeUsd == SumVolume(data[1].sellers, "sold_volume_usd")
       IN  [buySell |-> Some(
              [boughtVolumeUsd |-> boughtVolumeUsd,
               soldVolumeUsd   |-> soldVolumeUsd,
               netFlowUsd      |-> boughtVolumeUsd - soldVolumeUsd,
               buyerCount      |-> Len(FilterPositive(data[1].buyers, "bought_volume_usd")),
               sellerCount     |-> Len(FilterPositive(data[1].sellers, "sold_volume_usd"))]),
            topBuyers  |-> TopTraders(data[1].buyers, "bought_volume_usd", "BUY"),
            topSellers |-> TopTraders(data[1].sellers, "sold_volume_usd", "SELL")]

----------------------------------------------------------------------------
(* src/core/lookup.ts: buildTokenReport *)

\* toUpperCase on the strings the model uses
ToUpperCase(str) ==
  CASE str = "pepe" -> "PEPE"
    [] str = "Pepe" -> "PEPE"
    [] str = "weth" -> "WETH"
    [] str = "eth"  -> "ETH"
    [] str = "usdc" -> "USDC"
    [] str = "sol"  -> "SOL"
    [] str = "btc"  -> "BTC"
    [] OTHER -> str

\* a || b on nullish values (a ?? b with 0 falling through as well)
CoalesceFalsy(a, b) == IF TruthyNum(a) THEN a ELSE b

\* value ?? fallback of the merge (lines 217-221)
Merge(a, b) == Coalesce(a, b)

\* Adopting the provider's name whatever the current name is
PatchIdentityAlways(t, tokenInfo) ==
  LET name == FieldOf(tokenInfo, "name")
      symbol == FieldOf(tokenInfo, "symbol")
      t1 == IF name # NULL /\ name[1] # "" THEN [t EXCEPT !.name = name[1]] ELSE t
  IN  IF symbol # NULL /\ symbol[1] # ""
      THEN [t1 EXCEPT !.symbol = ToUpperCase(symbol[1])] ELSE t1

\* The identity patch (lines 231-238): name from the provider when the current
\* name is a placeholder, symbol from the provider always
PatchIdentity(t, tokenInfo) ==
  LET name == FieldOf(tokenInfo, "name")
      symbol == FieldOf(tokenInfo, "symbol")
      t1 == IF name # NULL /\ name[1] # "" /\
               (t.name = "Unknown Token" \/ t.name = t.symbol)
            THEN [t EXCEPT !.name = name[1]] ELSE t
  IN  IF symbol # NULL /\ symbol[1] # ""
      THEN [t1 EXCEPT !.symbol = ToUpperCase(symbol[1])] ELSE t1

\* Writing the patches through report.token, which starts as the argument
PatchObjectsInPlace(t, tokenInfo) ==
  LET name == FieldOf(tokenInfo, "name")
      symbol == FieldOf(tokenInfo, "symbol")
      heap0 == [arg |-> t, copy |-> t]
      heap1 == IF name # NULL /\ name[1] # "" /\
                  (heap0.arg.name = "Unknown Token" \/ heap0.arg.name = heap0.arg.symbol)
               THEN [heap0 EXCEPT !.arg.name = name[1]] ELSE heap0
      heap2 == IF symbol # NULL /\ symbol[1] # ""
               THEN [heap1 EXCEPT !.arg.symbol = ToUpperCase(symbol[1])] ELSE heap1
  IN  [arg |-> heap2.arg, reportToken |-> heap2.arg]

\* The objects of the identity patch: report.token starts as a reference to the
\* argument object (ref = "arg"); each patch assigns report.token a new object
\* built by spreading (copy) and never writes to the object it read
PatchObjects(t, tokenInfo) ==
  LET name == FieldOf(tokenInfo, "name")
      symbol == FieldOf(tokenInfo, "symbol")
      heap0 == [arg |-> t, copy |-> t]
      named == name # NULL /\ name[1] # "" /\
               (heap0.arg.name = "Unknown Token" \/ heap0.arg.name = heap0.arg.symbol)
      heap1 == IF named THEN [heap0 EXCEPT !.copy = [heap0.arg EXCEPT !.name = name[1]]]
               ELSE heap0
      ref1 == IF named THEN "copy" ELSE "arg"
      patched == symbol # NULL /\ symbol[1] # ""
      heap2 == IF patched
               THEN [heap1 EXCEPT !.copy = [heap1[ref1] EXCEPT !.symbol = ToUpperCase(symbol[1])]]
               ELSE heap1
      ref2 == IF patched THEN "copy" ELSE ref1
  IN  [arg |-> heap2.arg, reportToken |-> heap2[ref2]]

\* The report built from the four settled values
BuildReport(t, tokenInfo, flowsData, smartMoneyData, cgData, now) ==
  [token          |-> PatchIdentity(t, tokenInfo),
   priceUsd       |-> Merge(FieldOf(tokenInfo, "price"), FieldOf(cgData, "priceUsd")),
   marketCapUsd   |-> Merge(FieldOf(tokenInfo, "market_cap"), FieldOf(cgData, "marketCapUsd")),
   fdvUsd         |-> Merge(FieldOf(tokenInfo, "fdv"), FieldOf(cgData, "fdvUsd")),
   priceChange24h |-> FieldOf(cgData, "priceChange24h"),
   volume24hUsd   |-> Merge(FieldOf(tokenInfo, "volume"), FieldOf(cgData, "volume24hUsd")),
   liquidityUsd   |-> FieldOf(tokenInfo, "liquidity"),
   tokenAgeDays   |-> computeTokenAge(FieldOf(tokenInfo, "deployment_date"), now),
   holderCount    |-> FieldOf(tokenInfo, "holder_count"),
   flows          |-> IF flowsData # NULL THEN extractFlows(flowsData[1]) ELSE <<>>,
   smartMoney     |-> buildSmartMoneySection(smartMoneyData),
   nansenUrl      |-> buildNansenUrl(t),
   dataSource     |-> determineDataSource(tokenInfo, cgData)]

----------------------------------------------------------------------------
(* Inputs of the report builder *)

\* The tokens a report is built for
Tokens ==
  { [name |-> "Unknown Token", symbol |-> "???", chain |-> "ethereum",
     address |-> "0xAbC1", coingeckoId |-> NULL],
    [name |-> "PEPE", symbol |-> "PEPE", chain |-> "solana",
     address |-> "PepeMint", coingeckoId |-> NULL],
    [name |-> "Ethereum", symbol |-> "ETH", chain |-> "ethereum",
     address |-> NativeAddr, coingeckoId |-> Some("ethereum")],
    [name |-> "Bitcoin", symbol |-> "BTC", chain |-> "ethereum",
     address |-> WbtcAddr, coingeckoId |-> NULL],
    [name |-> "Aptos Coin", symbol |-> "APT", chain |-> "aptos",
     address |-> "0x1::aptos_coin", coingeckoId |-> NULL] }

\* Numbers the analytics provider reports, and numbers the market-data provider reports
AnalyticsNums == {0, 5}
MarketNums == {0, 7}

\* Token information whose market fields vary
TokenInfoMarket ==
  { [price |-> p, market_cap |-> m, fdv |-> f, volume |-> v,
     name |-> NULL, symbol |-> NULL, liquidity |-> NULL, holder_count |-> NULL,
     deployment_date |-> NULL] :
    p \in Opt(AnalyticsNums), m \in Opt({5}), f \in Opt({5}), v \in Opt({5}) }

\* Token information whose identity and detail fields vary
TokenInfoIdentity ==
  { [price |-> Some(5), market_cap |-> NULL, fdv |-> NULL, volume |-> NULL,
     name |-> n, symbol |-> s, liquidity |-> d.liquidity,
     holder_count |-> d.holder_count, deployment_date |-> d.deployment_date] :
    n \in Opt({"Pepe Coin"}), s \in Opt({"pepe"}),
    d \in { [liquidity |-> NULL, holder_count |-> NULL, deployment_date |-> NULL],
            [liquidity |-> Some(9), holder_count |-> Some(100),
             deployment_date |-> Some([valid |-> TRUE, ms |-> 1000])],
            [liquidity |-> Some(0), holder_count |-> NULL,
             deployment_date |-> Some([valid |-> FALSE, ms |-> 0])] } }

TokenInfos == TokenInfoMarket \cup TokenInfoIdentity

\* Date.now() at the time the report is assembled
ClockSamples == {3 * DayMs + 999}

\* One flow-intelligence row
FlowSamples ==
  { [smart_trader_net_flow_usd |-> 400000, smart_trader_avg_flow_usd |-> 100000,
     smart_trader_wallet_count |-> 5,
     whale_net_flow_usd |-> -6000000, whale_avg_flow_usd |-> 1000000,
     whale_wallet_count |-> 3,
     public_figure_net_flow_usd |-> 0, public_figure_avg_flow_usd |-> 0,
     public_figure_wallet_count |-> 0,
     exchange_net_flow_usd |-> -300000, exchange_avg_flow_usd |-> 50000,
     exchange_wallet_count |-> 2,
     top_pnl_net_flow_usd |-> 10, top_pnl_avg_flow_usd |-> 0,
     top_pnl_wallet_count |-> 1,
     fresh_wallets_net_flow_usd |-> 0, fresh_wallets_avg_flow_usd |-> 0,
     fresh_wallets_wallet_count |-> 0] }

Trader(addr, label, bought, sold) ==
  [address |-> addr, address_label |-> label,
   bought_volume_usd |-> bought, sold_volume_usd |-> sold]

LongAddr == <<"0", "x", "a", "b", "c", "d", "e", "f", "1", "2", "3", "4">>
ShortAddr == <<"0", "x", "a", "b">>

\* Smart-money trade lists
SmartMoneySamples ==
  { [buyers |-> << Trader(LongAddr, <<>>, Some(500), NULL),
                  Trader(ShortAddr, <<"F", "u", "n", "d">>, Some(0), NULL),
                  Trader(ShortAddr, <<>>, Some(900), NULL),
                  Trader(LongAddr, <<"W">>, Some(700), NULL),
                  Trader(LongAddr, <<>>, Some(600), NULL) >>,
     sellers |-> << Trader(LongAddr, <<>>, NULL, NULL),
                   Trader(ShortAddr, <<>>, NULL, Some(200)) >>],
    [buyers |-> <<>>, sellers |-> <<>>] }

\* data[key] of the two simple endpoints
SimpleEntries ==
  { [usd |-> u, usd_market_cap |-> m, usd_24h_vol |-> v, usd_24h_change |-> c] :
    u \in Opt(MarketNums), m \in Opt(MarketNums), v \in Opt({7}), c \in Opt({-12}) }

\* market_data of the detailed endpoint
DetailEntries ==
  { [current_price |-> p, market_cap |-> m, fully_diluted_valuation |-> f,
     total_volume |-> v, price_change_percentage_24h |-> c] :
    p \in Opt(MarketNums), m \in Opt({7}), f \in Opt({7}), v \in Opt({7}),
    c \in Opt({-12}) }

SimpleExchanges == {HttpThrow, HttpNotOk} \cup {HttpOk(e) : e \in Opt(SimpleEntries)}
DetailExchanges == {HttpThrow, HttpNotOk} \cup {HttpOk(e) : e \in Opt(DetailEntries)}

\* What a call of the analytics client can settle to: a rejection, null, or data
Outcomes(S) == {Rejected, Fulfilled(NULL)} \cup {Fulfilled(Some(v)) : v \in S}

----------------------------------------------------------------------------
(* buildTokenReport as a process: fire the four calls, let each settle, merge *)

\* Promise.allSettled([...]) is called: all four calls are in flight
BuildStart ==
  /\ buildPc = "idle"
  /\ \E t \in Tokens : token' = Some(t)
  /\ buildPc' = "awaiting"
  /\ UNCHANGED <<tokenInfoResult, flowsResult, smartMoneyResult, cgResult, report, cgStage>>
  /\ UNCHANGED nonBuildVars

\* nansen.getTokenInfo settles
SettleTokenInfo ==
  /\ buildPc = "awaiting"
  /\ tokenInfoResult = Pending
  /\ \E o \in Outcomes(TokenInfos) : tokenInfoResult' = o
  /\ UNCHANGED <<buildPc, token, flowsResult, smartMoneyResult, cgResult, report, cgStage>>
  /\ UNCHANGED nonBuildVars

\* nansen.getFlowIntelligence settles
SettleFlows ==
  /\ buildPc = "awaiting"
  /\ flowsResult = Pending
  /\ \E o \in Outcomes(FlowSamples) : flowsResult' = o
  /\ UNCHANGED <<buildPc, token, tokenInfoResult, smartMoneyResult, cgResult, report, cgStage>>
  /\ UNCHANGED nonBuildVars

\* nansen.getSmartMoneyBuySell settles
SettleSmartMoney ==
  /\ buildPc = "awaiting"
  /\ smartMoneyResult = Pending
  /\ \E o \in Outcomes(SmartMoneySamples) : smartMoneyResult' = o
  /\ UNCHANGED <<buildPc, token, tokenInfoResult, flowsResult, cgResult, report, cgStage>>
  /\ UNCHANGED nonBuildVars

\* fetchCoinGeckoData, first exchange: by coin id when the token has one, else
\* the simple endpoint by contract; every failure is caught
CoinGeckoFirst ==
  /\ buildPc = "awaiting"
  /\ cgResult = Pending
  /\ cgStage = "first"
  /\ IF CgIdOf(token[1]) # NULL
     THEN /\ \E res \in SimpleExchanges :
               cgResult' = Fulfilled(fetchCoinGeckoByCoinId(res))
          /\ UNCHANGED cgStage
     ELSE IF token[1].chain \notin DOMAIN CHAIN_TO_CG_PLATFORM
     THEN /\ cgResult' = Fulfilled(NULL)
          /\ UNCHANGED cgStage
     ELSE \E res \in SimpleExchanges :
            IF SimpleEntryUsable(res)
            THEN /\ cgResult' = Fulfilled(Some(SimpleEntryData(res.body[1])))
                 /\ UNCHANGED cgStage
            ELSE /\ cgStage' = "detail"
                 /\ UNCHANGED cgResult
  /\ UNCHANGED <<buildPc, token, tokenInfoResult, flowsResult, smartMoneyResult, report>>
  /\ UNCHANGED nonBuildVars

\* fetchCoinGeckoByContract falls back to the detailed endpoint
CoinGeckoDetail ==
  /\ buildPc = "awaiting"
  /\ cgResult = Pending
  /\ cgStage = "detail"
  /\ \E detail \in DetailExchanges : cgResult' = Fulfilled(DetailData(detail))
  /\ UNCHANGED <<buildPc, token, tokenInfoResult, flowsResult, smartMoneyResult,
                 cgStage, report>>
  /\ UNCHANGED nonBuildVars

\* All four have settled: the function merges them and returns (or throws)
BuildFinish ==
  /\ buildPc = "awaiting"
  /\ tokenInfoResult # Pending
  /\ flowsResult # Pending
  /\ smartMoneyResult # Pending
  /\ cgResult # Pending
  /\ IF JoinRejects(<<tokenInfoResult, flowsResult, smartMoneyResult, cgResult>>)
     THEN /\ buildPc' = "thrown"
          /\ report' = NULL
          /\ UNCHANGED token
     ELSE /\ buildPc' = "done"
          /\ \E now \in ClockSamples :
               report' = Some(BuildReport(token[1], ValueOf(tokenInfoResult),
                                          ValueOf(flowsResult), ValueOf(smartMoneyResult),
                                          ValueOf(cgResult), now))
          /\ token' = Some(PatchObjects(token[1], ValueOf(tokenInfoResult)).arg)
  /\ UNCHANGED <<tokenInfoResult, flowsResult, smartMoneyResult, cgResult, cgStage>>
  /\ UNCHANGED nonBuildVars

\* The caller builds a report for the same token object again (the watchlist
\* is one array of objects handed to every scan)
BuildAgain ==
  /\ buildPc = "done"
  /\ buildPc' = "awaiting"
  /\ tokenInfoResult' = Pending
  /\ flowsResult' = Pending
  /\ smartMoneyResult' = Pending
  /\ cgResult' = Pending
  /\ cgStage' = "first"
  /\ report' = NULL
  /\ UNCHANGED token
  /\ UNCHANGED nonBuildVars

BuildNext ==
  \/ BuildStart
  \/ SettleTokenInfo
  \/ SettleFlows
  \/ SettleSmartMoney
  \/ CoinGeckoFirst
  \/ CoinGeckoDetail
  \/ BuildFinish
  \/ BuildAgain

----------------------------------------------------------------------------
(* src/core/resolver.ts: tables *)

\* CoinGecko platform IDs -> Nansen chain names, in the order of the object literal
PLATFORM_TO_CHAIN ==
  << <<"ethereum", "ethereum">>, <<"binance-smart-chain", "bnb">>,
     <<"solana", "solana">>, <<"arbitrum-one", "arbitrum">>,
     <<"polygon-pos", "polygon">>, <<"optimistic-ethereum", "optimism">>,
     <<"avalanche", "avalanche">>, <<"base", "base">>, <<"tron", "tron">>,
     <<"fantom", "fantom">>, <<"blast", "blast">>, <<"scroll", "scroll">>,
     <<"linea", "linea">>, <<"mantle", "mantle">>, <<"ronin", "ronin">>,
     <<"sei-v2", "sei">>, <<"zksync", "zksync">>, <<"unichain", "unichain">>,
     <<"sonic", "sonic">>, <<"iota-evm", "iotaevm">>, <<"hyperevm", "hyperevm">>,
     <<"near-protocol", "near">>, <<"starknet", "starknet">>, <<"sui", "sui">>,
     <<"the-open-network", "ton">>, <<"plasma", "plasma">>, <<"monad", "monad">> >>

\* PLATFORM_TO_CHAIN[platKey], NULL when the platform is not in the table
ChainOfPlatform(platKey) ==
  IF \E i \in 1..Len(PLATFORM_TO_CHAIN) : PLATFORM_TO_CHAIN[i][1] = platKey
  THEN Some(PLATFORM_TO_CHAIN[CHOOSE i \in 1..Len(PLATFORM_TO_CHAIN) :
                                PLATFORM_TO_CHAIN[i][1] = platKey][2])
  ELSE NULL

\* CHAIN_TO_PLATFORM[chain]: the table reversed, NULL when the chain is not in it
CHAIN_TO_PLATFORM(chain) ==
  IF \E i \in 1..Len(PLATFORM_TO_CHAIN) : PLATFORM_TO_CHAIN[i][2] = chain
  THEN Some(PLATFORM_TO_CHAIN[CHOOSE i \in 1..Len(PLATFORM_TO_CHAIN) :
                                PLATFORM_TO_CHAIN[i][2] = chain][1])
  ELSE NULL

NativeToken(name, symbol, chain, address, cgId) ==
  [name |-> name, symbol |-> symbol, chain |-> chain, address |-> address,
   coingeckoId |-> Some(cgId)]

\* Native tokens keyed by CoinGecko coin id
NATIVE_TOKEN_MAP ==
  [ethereum    |-> NativeToken("Ethereum", "ETH", "ethereum", NativeAddr, "ethereum"),
   bitcoin     |-> NativeToken("Bitcoin", "BTC", "ethereum", WbtcAddr, "bitcoin"),
   solana      |-> NativeToken("Solana", "SOL", "solana", WsolAddr, "solana"),
   binancecoin |-> NativeToken("BNB", "BNB", "bnb", NativeAddr, "binancecoin"),
   avalanche   |-> NativeToken("Avalanche", "AVAX", "avalanche", NativeAddr, "avalanche-2"),
   matic       |-> NativeToken("Polygon", "POL", "polygon", NativeAddr, "matic-network"),
   fantom      |-> NativeToken("Fantom", "FTM", "fantom", NativeAddr, "fantom"),
   monad       |-> NativeToken("Monad", "MON", "monad", NativeAddr, "monad"),
   sui         |-> NativeToken("Sui", "SUI", "sui", SuiAddr, "sui"),
   near        |-> NativeToken("NEAR Protocol", "NEAR", "near", "wrap.near", "near"),
   mantle      |-> NativeToken("Mantle", "MNT", "mantle", NativeAddr, "mantle"),
   sonic       |-> NativeToken("Sonic", "S", "sonic", NativeAddr, "sonic-3"),
   sei         |-> NativeToken("Sei", "SEI", "sei", NativeAddr, "sei-network"),
   hyperliquid |-> NativeToken("Hyperliquid", "HYPE", "hyperevm", NativeAddr, "hyperliquid"),
   tron        |-> NativeToken("TRON", "TRX", "tron", NativeAddr, "tron")]
  @@ ("the-open-network" :> NativeToken("Toncoin", "TON", "ton", NativeAddr,
                                        "the-open-network"))

\* The chains resolveByAddress tries when there is no hint, most popular first
CHAINS_TO_TRY ==
  <<"ethereum", "base", "arbitrum", "polygon", "optimism", "bnb", "avalanche",
    "scroll", "linea", "mantle", "zksync", "blast", "sonic", "monad", "ronin",
    "sei", "fantom", "unichain", "hyperevm", "iotaevm", "plasma">>

\* a || b on optional strings
OrElse(a, b) == IF a # NULL /\ a[1] # "" THEN a ELSE b

\* parsed.chainHint || parsed.inferredChain
WantedChain(p) == OrElse(p.chainHint, p.inferredChain)

----------------------------------------------------------------------------
(* src/core/resolver.ts: resolveBySymbol, the candidate list *)

\* Rank used when market_cap_rank is null
NullRank == 9999

\* a.market_cap_rank ?? 9999
RankKey(c) == IF c.market_cap_rank # NULL THEN c.market_cap_rank[1] ELSE NullRank

\* coins.filter(c => c.symbol.toUpperCase() === parsed.query.toUpperCase())
RECURSIVE ExactMatches(_, _)
ExactMatches(list, query) ==
  IF list = <<>> THEN <<>>
  ELSE IF ToUpperCase(Head(list).symbol) = ToUpperCase(query)
       THEN <<Head(list)>> \o ExactMatches(Tail(list), query)
       ELSE ExactMatches(Tail(list), query)

\* How many fuzzy results are kept when nothing matches exactly: coins.slice(0, 5)
FuzzyLimit == 5

\* Insert c into a list sorted ascending by rank key, after every entry that is <= c
RECURSIVE InsertByRank(_, _)
InsertByRank(c, sorted) ==
  IF sorted = <<>> THEN <<c>>
  ELSE IF RankKey(Head(sorted)) <= RankKey(c)
       THEN <<Head(sorted)>> \o InsertByRank(c, Tail(sorted))
       ELSE <<c>> \o sorted

\* candidates.sort((a, b) => (a.rank ?? 9999) - (b.rank ?? 9999)): stable, ascending
RECURSIVE SortByRank(_)
SortByRank(list) ==
  IF list = <<>> THEN <<>>
  ELSE InsertByRank(list[Len(list)], SortByRank(SubSeq(list, 1, Len(list) - 1)))

\* The candidates in the order they are tried (lines 196-203)
Candidates(list, query) ==
  LET exactMatches == ExactMatches(list, query)
  IN  SortByRank(IF Len(exactMatches) > 0 THEN exactMatches
                 ELSE Slice(list, FuzzyLimit))

----------------------------------------------------------------------------
(* src/core/resolver.ts: resolveBySymbol, one candidate *)

\* map[key] of an ordered map (a sequence of <<key, value>>), NULL when absent
RECURSIVE MapGet(_, _)
MapGet(map, key) ==
  IF map = <<>> THEN NULL
  ELSE IF Head(map)[1] = key THEN Some(Head(map)[2])
  ELSE MapGet(Tail(map), key)

\* detail.platforms?.[k] || detail.detail_platforms?.[k]?.contract_address
AddressOnPlatform(detail, platformKey) ==
  IF platformKey = NULL THEN NULL
  ELSE OrElse(MapGet(detail.platforms, platformKey[1]),
              IF detail.detail_platforms = NULL THEN NULL
              ELSE MapGet(detail.detail_platforms[1], platformKey[1]))

\* First entry of detail_platforms, in the provider's order, whose platform is
\* in the table and whose contract address is non-empty: <<chain, address>> or NULL
RECURSIVE FirstDetailPlatform(_)
FirstDetailPlatform(dps) ==
  IF dps = <<>> THEN NULL
  ELSE IF ChainOfPlatform(Head(dps)[1]) # NULL /\ Head(dps)[2] # ""
       THEN Some(<<ChainOfPlatform(Head(dps)[1])[1], Head(dps)[2]>>)
       ELSE FirstDetailPlatform(Tail(dps))

\* First platform of the table, in table order, with a non-empty address in the
\* flat platforms map: <<chain, address>> or NULL
RECURSIVE FirstTablePlatform(_, _)
FirstTablePlatform(platforms, i) ==
  IF i > Len(PLATFORM_TO_CHAIN) THEN NULL
  ELSE IF OrElse(MapGet(platforms, PLATFORM_TO_CHAIN[i][1]), NULL) # NULL
       THEN Some(<<PLATFORM_TO_CHAIN[i][2], MapGet(platforms, PLATFORM_TO_CHAIN[i][1])[1]>>)
       ELSE FirstTablePlatform(platforms, i + 1)

FromDetail(detail, chain, address) ==
  [name |-> detail.name, symbol |-> ToUpperCase(detail.symbol[1]), chain |-> chain,
   address |-> address, coingeckoId |-> NULL]

\* What the coin detail of one candidate yields (lines 217-272): a token, or NULL
\* to go on with the next candidate.  detail is NULL when getCoinDetail failed;
\* a detail without a symbol makes symbol.toUpperCase() throw inside the try.
TokenFromDetail(detail, chain) ==
  IF detail = NULL THEN NULL
  ELSE IF chain # NULL
  THEN LET addr == AddressOnPlatform(detail[1], CHAIN_TO_PLATFORM(chain[1]))
       IN  IF addr = NULL THEN NULL
           ELSE IF detail[1].symbol = NULL THEN NULL
           ELSE Some(FromDetail(detail[1], chain[1], addr[1]))
  ELSE LET primary == IF detail[1].detail_platforms = NULL THEN NULL
                      ELSE FirstDetailPlatform(detail[1].detail_platforms[1])
           hit == IF primary # NULL THEN primary
                  ELSE FirstTablePlatform(detail[1].platforms, 1)
       IN  IF hit = NULL THEN NULL
           ELSE IF detail[1].symbol = NULL THEN NULL
           ELSE Some(FromDetail(detail[1], hit[1][1], hit[1][2]))

\* The shortcut taken whatever chain is wanted
NativeShortcutAnyChain(coin, wantedChain) ==
  IF coin.id \notin DOMAIN NATIVE_TOKEN_MAP THEN NULL
  ELSE Some(NATIVE_TOKEN_MAP[coin.id])

\* The shortcut looked up by ticker instead of coin id: it never applies
NativeShortcutNever(coin, wantedChain) ==
  IF coin.symbol \notin DOMAIN NATIVE_TOKEN_MAP THEN NULL
  ELSE Some(NATIVE_TOKEN_MAP[coin.symbol])

\* The native-token shortcut of one candidate (lines 208-215): the table entry,
\* or NULL to go on to the coin detail
NativeShortcut(coin, wantedChain) ==
  IF coin.id \notin DOMAIN NATIVE_TOKEN_MAP THEN NULL
  ELSE IF wantedChain = NULL \/ wantedChain[1] = NATIVE_TOKEN_MAP[coin.id].chain
       THEN Some(NATIVE_TOKEN_MAP[coin.id])
       ELSE NULL

----------------------------------------------------------------------------
(* Inputs of the resolver *)

ParsedSymbol(q, hint) ==
  [query |-> q, isContractAddress |-> FALSE, chainHint |-> hint, inferredChain |-> NULL]

ParsedAddress(q, hint, inferred) ==
  [query |-> q, isContractAddress |-> TRUE, chainHint |-> hint, inferredChain |-> inferred]

\* Parsed inputs as parseUserInput produces them: symbols upper-cased, chain hints
\* from the alias table, inferredChain set for Tron and Solana addresses only
ParsedInputs ==
  { ParsedSymbol("PEPE", NULL), ParsedSymbol("PEPE", Some("solana")),
    ParsedSymbol("ETH", NULL), ParsedSymbol("ETH", Some("base")),
    ParsedSymbol("ETH", Some("ethereum")),
    ParsedAddress("0xAbC1", NULL, NULL), ParsedAddress("0xAbC1", Some("base"), NULL),
    ParsedAddress("TAbc", NULL, Some("tron")),
    ParsedAddress("TAbc", Some("ethereum"), Some("tron")),
    ParsedAddress("SoLMint", NULL, Some("solana")) }

\* Longest search result list
MaxCoins == 3

\* Market-cap ranks a search result carries
RankSamples == {3, 10000}

\* The coins the search endpoint knows, without their rank
CoinBases ==
  { [id |-> "pepe", name |-> "Pepe", symbol |-> "pepe"],
    [id |-> "pepe-sol", name |-> "Pepe (Solana)", symbol |-> "PEPE"],
    [id |-> "ethereum", name |-> "Ethereum", symbol |-> "ETH"],
    [id |-> "bridged-eth", name |-> "Bridged Ether", symbol |-> "eth"],
    [id |-> "solana", name |-> "Solana", symbol |-> "SOL"] }

SearchCoins ==
  { [id |-> b.id, name |-> b.name, symbol |-> b.symbol, market_cap_rank |-> r] :
    b \in CoinBases, r \in Opt(RankSamples) }

\* Search results: up to MaxCoins coins with distinct ids
SearchResults ==
  { l \in UNION { [1..n -> SearchCoins] : n \in 0..MaxCoins } :
      \A i, j \in 1..Len(l) : i # j => l[i].id # l[j].id }

CoinDetail(name, symbol, platforms, detailPlatforms) ==
  [name |-> name, symbol |-> symbol, platforms |-> platforms,
   detail_platforms |-> detailPlatforms]

\* Coin-detail bodies: platforms and detail_platforms are ordered maps
DetailSamples ==
  { \* a single-chain token
    CoinDetail("Pepe", Some("pepe"),
               << <<"ethereum", "0xpepe">> >>, Some(<< <<"ethereum", "0xpepe">> >>)),
    \* primary listing on solana, also on base
    CoinDetail("Pepe", Some("pepe"),
               << <<"solana", "PepeMint">>, <<"base", "0xpepebase">> >>,
               Some(<< <<"solana", "PepeMint">>, <<"base", "0xpepebase">> >>)),
    \* an unrecognized platform first, no detail_platforms addresses
    CoinDetail("Bridged Ether", Some("eth"),
               << <<"cosmos", "ibc/eth">>, <<"base", "0xethbase">>,
                  <<"ethereum", "0xethmain">> >>,
               Some(<< <<"cosmos", "ibc/eth">>, <<"base", "">>, <<"ethereum", "">> >>)),
    \* a native coin: the only platform is the empty one
    CoinDetail("Ethereum", Some("eth"), << <<"", "">> >>, Some(<< <<"", "">> >>)),
    \* no flat platforms map; the address is in detail_platforms only
    CoinDetail("Pepe", Some("pepe"), <<>>, Some(<< <<"solana", "PepeMint">> >>)),
    \* a body without a symbol
    CoinDetail("Pepe", NULL, << <<"ethereum", "0xpepe">> >>, NULL) }

\* What the analytics provider's token screener holds for a symbol
ScreenerItems(q) ==
  { [token_symbol |-> q, chain |-> "base", token_address |-> "0xscreened"] }

\* The search exchange: body NULL is a body without coins
SearchExchanges == {HttpThrow, HttpNotOk, HttpOk(NULL)} \cup
                   {HttpOk(Some(l)) : l \in SearchResults}

\* The lookup-by-contract exchange: body NULL is a body that cannot be read
ContractExchanges ==
  {HttpThrow, HttpNotOk, HttpOk(NULL),
   HttpOk(Some([name |-> "Pepe", symbol |-> Some("pepe")])),
   HttpOk(Some([name |-> "Pepe", symbol |-> NULL]))}

----------------------------------------------------------------------------
(* resolveToken as a process *)

\* resolveToken(parsed): dispatch on isContractAddress (lines 175-180)
ResolveStart ==
  /\ resolvePc = "idle"
  /\ \E p \in ParsedInputs :
       /\ parsed' = Some(p)
       /\ resolvePc' = IF p.isContractAddress THEN "address" ELSE "search"
       /\ screener' \in IF p.isContractAddress THEN {NULL} ELSE Opt(ScreenerItems(p.query))
  /\ UNCHANGED <<searchStatus, coins, candidates, idx, detailLog, contractLog, resolved,
                 resolveError>>
  /\ UNCHANGED nonResolveVars

\* The search outcome without the check for zero results
SearchErrorNoEmptyCheck(res) ==
  IF res.status = "throw" THEN "FetchError"
  ELSE IF res.status = "notok" THEN "SearchFailed"
  ELSE IF res.body = NULL THEN "NotFound"
  ELSE ""

\* What the search response leads to (lines 184-194): the error thrown, "" for none
SearchError(res) ==
  IF res.status = "throw" THEN "FetchError"
  ELSE IF res.status = "notok" THEN "SearchFailed"
  ELSE IF res.body = NULL \/ res.body[1] = <<>> THEN "NotFound"
  ELSE ""

\* resolveBySymbol up to the sorted candidates (lines 182-203)
SymbolSearch ==
  /\ resolvePc = "search"
  /\ \E res \in SearchExchanges :
       /\ searchStatus' = res.status
       /\ IF SearchError(res) # ""
          THEN /\ resolvePc' = "failed"
               /\ resolveError' = SearchError(res)
               /\ UNCHANGED <<coins, candidates>>
          ELSE /\ resolvePc' = "candidates"
               /\ coins' = res.body[1]
               /\ candidates' = Candidates(res.body[1], parsed[1].query)
               /\ UNCHANGED resolveError
  /\ UNCHANGED <<parsed, screener, idx, detailLog, contractLog, resolved>>
  /\ UNCHANGED nonResolveVars

\* One iteration of the candidate loop (lines 206-273)
TryCandidate ==
  /\ resolvePc = "candidates"
  /\ idx <= Len(candidates)
  /\ LET coin == candidates[idx]
         nativeToken == NativeShortcut(coin, WantedChain(parsed[1]))
     IN  IF nativeToken # NULL
         THEN /\ resolved' = nativeToken
              /\ resolvePc' = "done"
              /\ UNCHANGED <<idx, detailLog>>
         ELSE \E detail \in Opt(DetailSamples) :
                /\ detailLog' = Append(detailLog, coin.id)
                /\ LET found == TokenFromDetail(detail, WantedChain(parsed[1]))
                   IN  IF found # NULL
                       THEN /\ resolved' = found
                            /\ resolvePc' = "done"
                            /\ UNCHANGED idx
                       ELSE /\ idx' = idx + 1
                            /\ UNCHANGED <<resolved, resolvePc>>
  /\ UNCHANGED <<parsed, screener, searchStatus, coins, candidates, contractLog, resolveError>>
  /\ UNCHANGED nonResolveVars

\* Every candidate was tried without an address (lines 275-278)
CandidatesExhausted ==
  /\ resolvePc = "candidates"
  /\ idx > Len(candidates)
  /\ resolvePc' = "failed"
  /\ resolveError' = "NoAddress"
  /\ UNCHANGED <<parsed, screener, searchStatus, coins, candidates, idx, detailLog, contractLog,
                 resolved>>
  /\ UNCHANGED nonResolveVars

\* The priority list tried even when a chain is named
ChainsToTryAll(p) == CHAINS_TO_TRY

\* chain ? [chain] : [the priority list]   (lines 282-289)
ChainsToTry(p) ==
  IF WantedChain(p) # NULL THEN <<WantedChain(p)[1]>> ELSE CHAINS_TO_TRY

\* The placeholder token with the named chain dropped
FallbackTokenOnEthereum(p) ==
  [name |-> "Unknown Token", symbol |-> "???", chain |-> "ethereum",
   address |-> p.query, coingeckoId |-> NULL]

\* The token returned when no lookup succeeded (lines 315-320)
FallbackToken(p) ==
  [name |-> "Unknown Token", symbol |-> "???",
   chain |-> IF WantedChain(p) # NULL THEN WantedChain(p)[1] ELSE "ethereum",
   address |-> p.query, coingeckoId |-> NULL]

\* Does a lookup-by-contract exchange yield a token?  A non-OK answer, a thrown
\* fetch, an unreadable body and a body without a symbol all go on to the next chain.
ContractHit(res) ==
  /\ res.status = "ok"
  /\ res.body # NULL
  /\ res.body[1].symbol # NULL

\* One iteration of the chain loop (lines 291-311)
TryChain ==
  /\ resolvePc = "address"
  /\ idx <= Len(ChainsToTry(parsed[1]))
  /\ LET tryChain == ChainsToTry(parsed[1])[idx]
     IN  IF CHAIN_TO_PLATFORM(tryChain) = NULL
         THEN /\ idx' = idx + 1
              /\ UNCHANGED <<contractLog, resolved, resolvePc>>
         ELSE \E res \in ContractExchanges :
                /\ contractLog' = Append(contractLog,
                                         [chain |-> tryChain, hit |-> ContractHit(res)])
                /\ IF ContractHit(res)
                   THEN /\ resolved' = Some([name |-> res.body[1].name,
                                             symbol |-> ToUpperCase(res.body[1].symbol[1]),
                                             chain |-> tryChain,
                                             address |-> parsed[1].query,
                                             coingeckoId |-> NULL])
                        /\ resolvePc' = "done"
                        /\ UNCHANGED idx
                   ELSE /\ idx' = idx + 1
                        /\ UNCHANGED <<resolved, resolvePc>>
  /\ UNCHANGED <<parsed, screener, searchStatus, coins, candidates, detailLog, resolveError>>
  /\ UNCHANGED nonResolveVars

\* No chain answered: return the placeholder token (lines 313-320)
AddressFallback ==
  /\ resolvePc = "address"
  /\ idx > Len(ChainsToTry(parsed[1]))
  /\ resolved' = Some(FallbackToken(parsed[1]))
  /\ resolvePc' = "done"
  /\ UNCHANGED <<parsed, screener, searchStatus, coins, candidates, idx, detailLog, contractLog,
                 resolveError>>
  /\ UNCHANGED nonResolveVars

ResolveNext ==
  \/ ResolveStart
  \/ SymbolSearch
  \/ TryCandidate
  \/ CandidatesExhausted
  \/ TryChain
  \/ AddressFallback

----------------------------------------------------------------------------
(* src/core/parser.ts: strings are sequences of one-character strings *)

UpperLetters == <<"A", "B", "C", "D", "E", "F", "G", "H", "I", "J", "K", "L", "M", "N", "O", "P", "Q", "R", "S", "T", "U", "V", "W", "X", "Y", "Z">>
LowerLetters == <<"a", "b", "c", "d", "e", "f", "g", "h", "i", "j", "k", "l", "m", "n", "o", "p", "q", "r", "s", "t", "u", "v", "w", "x", "y", "z">>

\* [A-Za-z]
Letters == {UpperLetters[i] : i \in 1..Len(UpperLetters)} \cup
           {LowerLetters[i] : i \in 1..Len(LowerLetters)}

\* [a-fA-F0-9]
HexChars == {"0", "1", "2", "3", "4", "5", "6", "7", "8", "9", "a", "b", "c", "d", "e", "f", "A", "B", "C", "D", "E", "F"}

\* [1-9A-HJ-NP-Za-km-z]
Base58Chars == {"1", "2", "3", "4", "5", "6", "7", "8", "9", "A", "B", "C", "D", "E", "F", "G", "H", "J", "K", "L", "M", "N", "P", "Q", "R", "S", "T", "U", "V", "W", "X", "Y", "Z", "a", "b", "c", "d", "e", "f", "g", "h", "i", "j", "k", "m", "n", "o", "p", "q", "r", "s", "t", "u", "v", "w", "x", "y", "z"}

\* \s
Whitespace == {" ", "\t", "\n"}

IndexIn(c, letters) == CHOOSE i \in 1..Len(letters) : letters[i] = c

\* c.toUpperCase() and c.toLowerCase() of one character
UpperChar(c) ==
  IF \E i \in 1..Len(LowerLetters) : LowerLetters[i] = c
  THEN UpperLetters[IndexIn(c, LowerLetters)] ELSE c
LowerChar(c) ==
  IF \E i \in 1..Len(UpperLetters) : UpperLetters[i] = c
  THEN LowerLetters[IndexIn(c, UpperLetters)] ELSE c

\* str.toUpperCase() and str.toLowerCase()
StrUpper(str) == [i \in 1..Len(str) |-> UpperChar(str[i])]
StrLower(str) == [i \in 1..Len(str) |-> LowerChar(str[i])]

\* CHAIN_ALIASES: <<alias, chain>>
CHAIN_ALIASES ==
  << <<<<"e", "t", "h">>, "ethereum">>,
     <<<<"e", "t", "h", "e", "r", "e", "u", "m">>, "ethereum">>,
     <<<<"s", "o", "l">>, "solana">>,
     <<<<"s", "o", "l", "a", "n", "a">>, "solana">>,
     <<<<"b", "s", "c">>, "bnb">>,
     <<<<"b", "n", "b">>, "bnb">>,
     <<<<"b", "i", "n", "a", "n", "c", "e">>, "bnb">>,
     <<<<"b", "a", "s", "e">>, "base">>,
     <<<<"a", "r", "b">>, "arbitrum">>,
     <<<<"a", "r", "b", "i", "t", "r", "u", "m">>, "arbitrum">>,
     <<<<"p", "o", "l", "y">>, "polygon">>,
     <<<<"p", "o", "l", "y", "g", "o", "n">>, "polygon">>,
     <<<<"a", "v", "a", "x">>, "avalanche">>,
     <<<<"a", "v", "a", "l", "a", "n", "c", "h", "e">>, "avalanche">>,
     <<<<"o", "p">>, "optimism">>,
     <<<<"o", "p", "t", "i", "m", "i", "s", "m">>, "optimism">>,
     <<<<"t", "r", "o", "n">>, "tron">>,
     <<<<"f", "a", "n", "t", "o", "m">>, "fantom">>,
     <<<<"f", "t", "m">>, "fantom">>,
     <<<<"b", "l", "a", "s", "t">>, "blast">>,
     <<<<"s", "c", "r", "o", "l", "l">>, "scroll">>,
     <<<<"l", "i", "n", "e", "a">>, "linea">>,
     <<<<"m", "a", "n", "t", "l", "e">>, "mantle">>,
     <<<<"r", "o", "n", "i", "n">>, "ronin">>,
     <<<<"s", "e", "i">>, "sei">>,
     <<<<"z", "k", "s", "y", "n", "c">>, "zksync">>,
     <<<<"z", "k">>, "zksync">>,
     <<<<"u", "n", "i", "c", "h", "a", "i", "n">>, "unichain">>,
     <<<<"s", "o", "n", "i", "c">>, "sonic">>,
     <<<<"m", "o", "n", "a", "d">>, "monad">>,
     <<<<"m", "o", "n">>, "monad">>,
     <<<<"n", "e", "a", "r">>, "near">>,
     <<<<"s", "t", "a", "r", "k", "n", "e", "t">>, "starknet">>,
     <<<<"s", "t", "a", "r", "k">>, "starknet">>,
     <<<<"s", "u", "i">>, "sui">>,
     <<<<"t", "o", "n">>, "ton">>,
     <<<<"h", "y", "p", "e", "r", "e", "v", "m">>, "hyperevm">>,
     <<<<"p", "l", "a", "s", "m", "a">>, "plasma">>,
     <<<<"i", "o", "t", "a", "e", "v", "m">>, "iotaevm">>,
     <<<<"i", "o", "t", "a">>, "iotaevm">> >>

\* CHAIN_ALIASES[word], NULL when the word is no alias
AliasChain(word) ==
  IF \E i \in 1..Len(CHAIN_ALIASES) : CHAIN_ALIASES[i][1] = word
  THEN Some(CHAIN_ALIASES[CHOOSE i \in 1..Len(CHAIN_ALIASES) : CHAIN_ALIASES[i][1] = word][2])
  ELSE NULL

AllIn(str, from, to, chars) == \A i \in from..to : str[i] \in chars

\* EVM_ADDRESS_RE = /^0x[a-fA-F0-9]{40}$/
EVM_ADDRESS_RE(str) ==
  /\ Len(str) = 42
  /\ str[1] = "0"
  /\ str[2] = "x"
  /\ AllIn(str, 3, 42, HexChars)

\* SOLANA_ADDRESS_RE = /^[1-9A-HJ-NP-Za-km-z]{32,44}$/
SOLANA_ADDRESS_RE(str) ==
  /\ Len(str) >= 32
  /\ Len(str) <= 44
  /\ AllIn(str, 1, Len(str), Base58Chars)

\* TRON_ADDRESS_RE = /^T[1-9A-HJ-NP-Za-km-z]{33}$/
TRON_ADDRESS_RE(str) ==
  /\ Len(str) = 34
  /\ str[1] = "T"
  /\ AllIn(str, 2, 34, Base58Chars)

\* (?:^|\s) before position i, and (?:\s|$) after position j
BoundaryBefore(str, i) == i = 1 \/ str[i - 1] \in Whitespace
BoundaryAfter(str, j) == j = Len(str) \/ str[j + 1] \in Whitespace

\* The three address patterns between whitespace or the ends of the text
EVM_ADDRESS_ANYWHERE_RE(str) ==
  \E i \in 1..Len(str) :
    /\ BoundaryBefore(str, i)
    /\ i + 41 <= Len(str)
    /\ EVM_ADDRESS_RE(SubSeq(str, i, i + 41))
    /\ BoundaryAfter(str, i + 41)

TRON_ADDRESS_ANYWHERE_RE(str) ==
  \E i \in 1..Len(str) :
    /\ BoundaryBefore(str, i)
    /\ i + 33 <= Len(str)
    /\ TRON_ADDRESS_RE(SubSeq(str, i, i + 33))
    /\ BoundaryAfter(str, i + 33)

SOLANA_ADDRESS_ANYWHERE_RE(str) ==
  \E i \in 1..Len(str) : \E n \in 32..44 :
    /\ BoundaryBefore(str, i)
    /\ i + n - 1 <= Len(str)
    /\ SOLANA_ADDRESS_RE(SubSeq(str, i, i + n - 1))
    /\ BoundaryAfter(str, i + n - 1)

\* DOLLAR_SYMBOL_RE = /\$[A-Za-z]{2,10}(?:\s|$)/
DOLLAR_SYMBOL_RE(str) ==
  \E i \in 1..Len(str) : \E n \in 2..10 :
    /\ str[i] = "$"
    /\ i + n <= Len(str)
    /\ AllIn(str, i + 1, i + n, Letters)
    /\ BoundaryAfter(str, i + n)

\* str.trim()
RECURSIVE TrimStart(_)
TrimStart(str) ==
  IF str # <<>> /\ Head(str) \in Whitespace THEN TrimStart(Tail(str)) ELSE str
RECURSIVE TrimEnd(_)
TrimEnd(str) ==
  IF str # <<>> /\ str[Len(str)] \in Whitespace
  THEN TrimEnd(SubSeq(str, 1, Len(str) - 1)) ELSE str
Trim(str) == TrimEnd(TrimStart(str))

\* Length of the first word of a string that does not start with whitespace
RECURSIVE WordLen(_)
WordLen(str) ==
  IF str = <<>> \/ Head(str) \in Whitespace THEN 0 ELSE 1 + WordLen(Tail(str))

\* trimmed.split(/\s+/) of a trimmed string; "".split gives [""]
RECURSIVE SplitWords(_)
SplitWords(str) ==
  IF str = <<>> THEN <<>>
  ELSE LET n == WordLen(str)
       IN  <<SubSeq(str, 1, n)>> \o SplitWords(TrimStart(SubSeq(str, n + 1, Len(str))))
Split(str) == IF str = <<>> THEN << <<>> >> ELSE SplitWords(str)

\* The $ prefix left in place
StripDollarNever(word) == word

\* word.startsWith('$') ? word.slice(1) : word
StripDollar(word) == IF word # <<>> /\ word[1] = "$" THEN Tail(word) ELSE word

\* The chain hint: the first of parts[1..] that is an alias (lines 71-78)
RECURSIVE FirstAlias(_)
FirstAlias(parts) ==
  IF parts = <<>> THEN NULL
  ELSE LET part == StripDollar(StrLower(Head(parts)))
       IN  IF AliasChain(part) # NULL THEN AliasChain(part) ELSE FirstAlias(Tail(parts))

\* parseUserInput with the Solana test ahead of the Tron test
parseUserInputSolanaFirst(raw) ==
  LET trimmed == Trim(raw)
  IN  IF trimmed = <<>> THEN NULL
      ELSE LET parts == Split(trimmed)
               query == StripDollar(parts[1])
               chainHint == FirstAlias(Tail(parts))
           IN  IF query = <<>> THEN NULL
               ELSE IF EVM_ADDRESS_RE(query)
               THEN Some([query |-> query, isContractAddress |-> TRUE,
                          chainHint |-> chainHint, inferredChain |-> NULL])
               ELSE IF Len(query) >= 32 /\ SOLANA_ADDRESS_RE(query)
               THEN Some([query |-> query, isContractAddress |-> TRUE,
                          chainHint |-> chainHint, inferredChain |-> Some("solana")])
               ELSE IF TRON_ADDRESS_RE(query)
               THEN Some([query |-> query, isContractAddress |-> TRUE,
                          chainHint |-> chainHint, inferredChain |-> Some("tron")])
               ELSE Some([query |-> StrUpper(query), isContractAddress |-> FALSE,
                          chainHint |-> chainHint, inferredChain |-> NULL])

\* parseUserInput: NULL or <<ParsedInput>>
parseUserInput(raw) ==
  LET trimmed == Trim(raw)
  IN  IF trimmed = <<>> THEN NULL
      ELSE LET parts == Split(trimmed)
               query == StripDollar(parts[1])
               chainHint == FirstAlias(Tail(parts))
           IN  IF query = <<>> THEN NULL
               ELSE IF EVM_ADDRESS_RE(query)
               THEN Some([query |-> query, isContractAddress |-> TRUE,
                          chainHint |-> chainHint, inferredChain |-> NULL])
               ELSE IF TRON_ADDRESS_RE(query)
               THEN Some([query |-> query, isContractAddress |-> TRUE,
                          chainHint |-> chainHint, inferredChain |-> Some("tron")])
               ELSE IF Len(query) >= 32 /\ SOLANA_ADDRESS_RE(query)
               THEN Some([query |-> query, isContractAddress |-> TRUE,
                          chainHint |-> chainHint, inferredChain |-> Some("solana")])
               ELSE Some([query |-> StrUpper(query), isContractAddress |-> FALSE,
                          chainHint |-> chainHint, inferredChain |-> NULL])

\* isTokenQuery without the test for a leading $
isTokenQueryNoLeadingDollar(text) ==
  LET trimmed == Trim(text)
      first == Split(trimmed)[1]
  IN  \/ EVM_ADDRESS_RE(first)
      \/ (Len(first) >= 32 /\ SOLANA_ADDRESS_RE(first))
      \/ TRON_ADDRESS_RE(first)
      \/ DOLLAR_SYMBOL_RE(trimmed)
      \/ EVM_ADDRESS_ANYWHERE_RE(trimmed)
      \/ TRON_ADDRESS_ANYWHERE_RE(trimmed)
      \/ SOLANA_ADDRESS_ANYWHERE_RE(trimmed)

\* isTokenQuery
isTokenQuery(text) ==
  LET trimmed == Trim(text)
      first == Split(trimmed)[1]
  IN  \/ (trimmed # <<>> /\ trimmed[1] = "$" /\ Len(trimmed) >= 2)
      \/ EVM_ADDRESS_RE(first)
      \/ (Len(first) >= 32 /\ SOLANA_ADDRESS_RE(first))
      \/ TRON_ADDRESS_RE(first)
      \/ DOLLAR_SYMBOL_RE(trimmed)
      \/ EVM_ADDRESS_ANYWHERE_RE(trimmed)
      \/ TRON_ADDRESS_ANYWHERE_RE(trimmed)
      \/ SOLANA_ADDRESS_ANYWHERE_RE(trimmed)

\* The first match of /(\$[A-Za-z]{2,10})/: the leftmost $ with two letters behind
\* it, and the letters that follow, ten at most
LettersFrom(str, i, n) ==
  /\ i + n <= Len(str)
  /\ AllIn(str, i + 1, i + n, Letters)

DollarSymbolMatch(str) ==
  IF \E i \in 1..Len(str) : str[i] = "$" /\ LettersFrom(str, i, 2)
  THEN LET i == CHOOSE k \in 1..Len(str) :
                  /\ str[k] = "$" /\ LettersFrom(str, k, 2)
                  /\ \A j \in 1..(k - 1) : ~(str[j] = "$" /\ LettersFrom(str, j, 2))
           n == CHOOSE k \in 2..10 :
                  /\ LettersFrom(str, i, k)
                  /\ (k = 10 \/ ~LettersFrom(str, i, k + 1))
       IN  Some(SubSeq(str, i, i + n))
  ELSE NULL

\* Does a word of length n that fits the pattern stand at position i, between
\* whitespace or the ends of the text?
EvmAt(str, i) ==
  /\ BoundaryBefore(str, i)
  /\ i + 41 <= Len(str)
  /\ EVM_ADDRESS_RE(SubSeq(str, i, i + 41))
  /\ BoundaryAfter(str, i + 41)

TronAt(str, i) ==
  /\ BoundaryBefore(str, i)
  /\ i + 33 <= Len(str)
  /\ TRON_ADDRESS_RE(SubSeq(str, i, i + 33))
  /\ BoundaryAfter(str, i + 33)

SolanaAt(str, i, n) ==
  /\ BoundaryBefore(str, i)
  /\ i + n - 1 <= Len(str)
  /\ SOLANA_ADDRESS_RE(SubSeq(str, i, i + n - 1))
  /\ BoundaryAfter(str, i + n - 1)

\* trimmed.match(..._ANYWHERE_RE)[1]: the leftmost match, NULL when there is none
EvmMatch(str) ==
  IF \E i \in 1..Len(str) : EvmAt(str, i)
  THEN LET i == CHOOSE k \in 1..Len(str) :
                  EvmAt(str, k) /\ \A j \in 1..(k - 1) : ~EvmAt(str, j)
       IN  Some(SubSeq(str, i, i + 41))
  ELSE NULL

TronMatch(str) ==
  IF \E i \in 1..Len(str) : TronAt(str, i)
  THEN LET i == CHOOSE k \in 1..Len(str) :
                  TronAt(str, k) /\ \A j \in 1..(k - 1) : ~TronAt(str, j)
       IN  Some(SubSeq(str, i, i + 33))
  ELSE NULL

SolanaMatch(str) ==
  IF \E i \in 1..Len(str) : \E n \in 32..44 : SolanaAt(str, i, n)
  THEN LET i == CHOOSE k \in 1..Len(str) :
                  /\ \E n \in 32..44 : SolanaAt(str, k, n)
                  /\ \A j \in 1..(k - 1) : \A n \in 32..44 : ~SolanaAt(str, j, n)
           n == CHOOSE k \in 32..44 : SolanaAt(str, i, k)
       IN  Some(SubSeq(str, i, i + n - 1))
  ELSE NULL

\* The chain word appended to an extracted $SYMBOL (lines 163-169): the first word
\* that is an alias once lower-cased and stripped of a leading $, unless it is the
\* symbol itself
RECURSIVE SymbolChainWord(_, _)
SymbolChainWord(words, symbol) ==
  IF words = <<>> THEN NULL
  ELSE LET lower == StripDollar(StrLower(Head(words)))
       IN  IF AliasChain(lower) # NULL /\ <<"$">> \o StrUpper(lower) # StrUpper(symbol)
           THEN Some(lower)
           ELSE SymbolChainWord(Tail(words), symbol)

\* The chain word appended to an extracted EVM address (lines 177-183)
RECURSIVE AddressChainWord(_, _)
AddressChainWord(words, ca) ==
  IF words = <<>> THEN NULL
  ELSE LET lower == StrLower(Head(words))
       IN  IF AliasChain(lower) # NULL /\ lower # StrLower(ca)
           THEN Some(lower)
           ELSE AddressChainWord(Tail(words), ca)

\* `${match} ${word}` when there is a chain word, else the match alone
WithChainWord(match, word) ==
  IF word = NULL THEN Some(match) ELSE Some(match \o <<" ">> \o word[1])

\* extractTokenQuery: NULL or <<query>>
extractTokenQuery(text) ==
  LET trimmed == Trim(text)
      first == Split(trimmed)[1]
  IN  IF trimmed # <<>> /\ trimmed[1] = "$" /\ Len(trimmed) >= 2 THEN Some(trimmed)
      ELSE IF EVM_ADDRESS_RE(first) THEN Some(trimmed)
      ELSE IF Len(first) >= 32 /\ SOLANA_ADDRESS_RE(first) THEN Some(trimmed)
      ELSE IF TRON_ADDRESS_RE(first) THEN Some(trimmed)
      ELSE IF DollarSymbolMatch(trimmed) # NULL
      THEN LET symbol == DollarSymbolMatch(trimmed)[1]
           IN  WithChainWord(symbol, SymbolChainWord(Split(trimmed), symbol))
      ELSE IF EvmMatch(trimmed) # NULL
      THEN LET ca == EvmMatch(trimmed)[1]
           IN  WithChainWord(ca, AddressChainWord(Split(trimmed), ca))
      ELSE IF TronMatch(trimmed) # NULL THEN TronMatch(trimmed)
      ELSE IF SolanaMatch(trimmed) # NULL THEN SolanaMatch(trimmed)
      ELSE NULL

----------------------------------------------------------------------------
(* Message texts, and the parser functions applied to one *)

\* Most words in a message text
MaxWords == 3

\* A 42-character EVM address, a 34-character Tron address, a 43-character Solana
\* mint, and a 31-character base58 word that is one short of an address
EvmWord == <<"0", "x">> \o [i \in 1..40 |-> IF i % 2 = 0 THEN "A" ELSE "1"]
TronWord == <<"T">> \o [i \in 1..33 |-> IF i % 2 = 0 THEN "x" ELSE "9"]
SolanaWord == [i \in 1..43 |-> IF i % 2 = 0 THEN "z" ELSE "K"]
ShortBase58Word == [i \in 1..31 |-> IF i % 2 = 0 THEN "z" ELSE "K"]

\* The words a message is made of
Words ==
  { <<"P", "E", "P", "E">>, <<"$", "p", "e", "p", "e">>, <<"$", "a">>, <<"$">>, <<"s", "o", "l">>,
    <<"$", "S", "O", "L">>, <<"$", "P", "E", "P", "E", "?">>,
    EvmWord, TronWord, SolanaWord, ShortBase58Word }

\* The whitespace between word i and word i + 1
Separator(i) == IF i % 2 = 1 THEN <<" ">> ELSE <<"\t", " ">>

RECURSIVE JoinWords(_, _)
JoinWords(ws, i) ==
  IF i > Len(ws) THEN <<>>
  ELSE IF i = Len(ws) THEN ws[i]
  ELSE ws[i] \o Separator(i) \o JoinWords(ws, i + 1)

\* Message texts: up to MaxWords words, bare or wrapped in whitespace
Messages ==
  { pad[1] \o JoinWords(ws, 1) \o pad[2] :
      ws \in UNION { [1..n -> Words] : n \in 0..MaxWords },
      pad \in { << <<>>, <<>> >>, << <<" ">>, <<"\n">> >> } }

\* The passive scanners' gate: isTokenQuery(text)
GateText ==
  /\ parserPc = "received"
  /\ gateResult' = isTokenQuery(message)
  /\ parserPc' = "gated"
  /\ UNCHANGED <<message, parseResult, extractResult>>
  /\ UNCHANGED nonParserVars

\* parseUserInput(raw) on the same text
ParseText ==
  /\ parserPc = "gated"
  /\ parseResult' = parseUserInput(message)
  /\ parserPc' = "parsed"
  /\ UNCHANGED <<message, gateResult, extractResult>>
  /\ UNCHANGED nonParserVars

\* extractTokenQuery(text) on the same text
ExtractText ==
  /\ parserPc = "parsed"
  /\ extractResult' = extractTokenQuery(message)
  /\ parserPc' = "extracted"
  /\ UNCHANGED <<message, gateResult, parseResult>>
  /\ UNCHANGED nonParserVars

ParserNext ==
  \/ GateText
  \/ ParseText
  \/ ExtractText

----------------------------------------------------------------------------
(* Telegram bot: key store (src/storage/keyStore.ts), query guard
   (src/security/rateLimiter.ts) and the handlers of src/platforms/telegram.ts.
   An async handler runs up to its next await in one step; every await at
   which other handlers can run separates two actions. *)

Users == {1, 2}
Groups == {"groupA", "groupB"}
Chats == {"private"} \cup Groups
Slots == {"h1", "h2"}

IsPrivate(chat) == chat = "private"

\* The key a user can submit that the analytics API accepts, and one it refuses
GoodKey(userId) == IF userId = 1 THEN "good1" ELSE "good2"
BadKey == "bad"
SubmittedKeys(userId) == {GoodKey(userId), BadKey, ""}

\* validateKey: true only when the API answered the probe request with data
ValidateOutcomes(apiKey) == IF apiKey = BadKey THEN {FALSE} ELSE {TRUE, FALSE}

NoAllowed == [g \in Groups |-> {}]
NewConfig(apiKey, dmOnly) ==
  [apiKey |-> apiKey, dmOnly |-> dmOnly, queryCount |-> 0, lastQueryAt |-> NULL,
   allowedUsers |-> NoAllowed]

getKey(store, userId) ==
  IF store[userId] = NULL THEN NULL ELSE Some(store[userId][1].apiKey)

\* setKey: the new entry takes dmOnly, queryCount and lastQueryAt from the
\* existing one and has no allowedUsers
setKey(store, userId, apiKey) ==
  [store EXCEPT ![userId] =
     IF store[userId] = NULL THEN Some(NewConfig(apiKey, FALSE))
     ELSE Some([NewConfig(apiKey, store[userId][1].dmOnly) EXCEPT
                  !.queryCount = store[userId][1].queryCount,
                  !.lastQueryAt = store[userId][1].lastQueryAt])]

\* incrementQueryCount
incrementQueryCount(store, userId, clockNow) ==
  IF store[userId] = NULL THEN store
  ELSE [store EXCEPT ![userId] =
          Some([store[userId][1] EXCEPT !.queryCount = @ + 1,
                                        !.lastQueryAt = Some(clockNow)])]

deleteKey(store, userId) == [store EXCEPT ![userId] = NULL]

getDmOnly(store, userId) ==
  IF store[userId] = NULL THEN FALSE ELSE store[userId][1].dmOnly

setDmOnly(store, userId, enabled) ==
  IF store[userId] = NULL THEN store
  ELSE [store EXCEPT ![userId] = Some([store[userId][1] EXCEPT !.dmOnly = enabled])]

allowUser(store, ownerId, groupId, targetUserId) ==
  IF store[ownerId] = NULL THEN store
  ELSE [store EXCEPT ![ownerId] =
          Some([store[ownerId][1] EXCEPT
                  !.allowedUsers[groupId] = @ \cup {targetUserId}])]

revokeUser(store, ownerId, groupId, targetUserId) ==
  IF store[ownerId] = NULL THEN store
  ELSE [store EXCEPT ![ownerId] =
          Some([store[ownerId][1] EXCEPT
                  !.allowedUsers[groupId] = @ \ {targetUserId}])]

\* Owners whose allowlist for the group contains the user
AllowingOwners(store, userId, groupId) ==
  {o \in Users : store[o] # NULL /\ userId \in store[o][1].allowedUsers[groupId]}

\* The key of an owner who allows the user in any group
findAllowedKeyAnyGroup(store, userId, groupId) ==
  LET owners == UNION {AllowingOwners(store, userId, g) : g \in Groups}
  IN IF owners = {} THEN NULL
     ELSE LET first == CHOOSE o \in owners : \A p \in owners : o <= p
          IN Some([owner |-> first, apiKey |-> store[first][1].apiKey])

\* findAllowedKey walks Object.values(data): integer-like keys in ascending order
findAllowedKey(store, userId, groupId) ==
  LET owners == AllowingOwners(store, userId, groupId)
  IN IF owners = {} THEN NULL
     ELSE LET first == CHOOSE o \in owners : \A p \in owners : o <= p
          IN Some([owner |-> first, apiKey |-> store[first][1].apiKey])

\* getNansenForUser: NULL or <<[owner, apiKey]>>, the key the client is made for
getNansenForUser(store, userId, chat) ==
  IF getKey(store, userId) # NULL
    THEN Some([owner |-> userId, apiKey |-> getKey(store, userId)[1]])
  ELSE IF ~IsPrivate(chat) THEN findAllowedKey(store, userId, chat)
  ELSE NULL

\* ---- rate limiter ----
MAX_PER_MINUTE == 10
MAX_PER_HOUR == 30
MinuteMs == 60000
HourMs == 3600000

\* timestamps.filter((t) => t > at - window)
Since(timestamps, at, window) ==
  SelectSeq(timestamps, LAMBDA t : t > at - window)

checkRateLimit(log, userId, at) ==
  /\ Len(Since(log[userId], at, MinuteMs)) < MAX_PER_MINUTE
  /\ Len(Since(log[userId], at, HourMs)) < MAX_PER_HOUR

recordQuery(log, userId, at) == [log EXCEPT ![userId] = Append(@, at)]

isQueryInFlight(flying, userId) == userId \in flying
markQueryStart(flying, userId) == flying \cup {userId}
\* A finally block that leaves the mark in place
markQueryEndKeeps(flying, userId) == flying
markQueryEnd(flying, userId) == flying \ {userId}

\* runSecurityChecks: the four checks in order; "" is a pass
runSecurityChecks(store, log, flying, at, userId, chat) ==
  IF getNansenForUser(store, userId, chat) = NULL THEN "nokey"
  ELSE IF ~IsPrivate(chat) /\ getDmOnly(store, userId) THEN "dmonly"
  ELSE IF isQueryInFlight(flying, userId) THEN "inflight"
  ELSE IF ~checkRateLimit(log, userId, at) THEN "ratelimit"
  ELSE ""

\* ---- handlers ----
IdleHandler ==
  [pc |-> "idle", user |-> 0, chat |-> "", owner |-> 0, apiKey |-> "", reason |-> ""]

Replying(userId, chat, reason) ==
  [pc |-> "replying", user |-> userId, chat |-> chat, owner |-> 0, apiKey |-> "",
   reason |-> reason]

\* Updates still to come (NULL: no limit)
MaxUpdates == 5
MaxTicks == 2
TickMs == MinuteMs \div 2

\* A log the limiter allows: nine queries in each of three consecutive minutes
BusyLog ==
  [i \in 1..(MAX_PER_HOUR - 3) |-> ((i - 1) \div (MAX_PER_MINUTE - 1)) * MinuteMs]
\* The minute after them
GuardStartMs == (MAX_PER_HOUR \div MAX_PER_MINUTE) * MinuteMs

MoreUpdates == IF updatesLeft = NULL THEN TRUE ELSE updatesLeft[1] > 0
UpdateTaken == IF updatesLeft = NULL THEN NULL ELSE Some(updatesLeft[1] - 1)

\* /setkey may store a key only when sent in a private chat
SetKeyAllowedAnywhere(chat) == TRUE
SetKeyAllowedIn(chat) == IsPrivate(chat)

\* /token <query> or a message text that isTokenQuery accepts: the handler runs
\* runSecurityChecks and suspends at `await runSecurityChecks(...)` (a pass has
\* no await inside) or inside it at the `await ctx.reply(...)` of a rejection;
\* the DM-only rejection returns without a reply
TokenArrives ==
  \E h \in Slots, u \in Users, chat \in Chats :
    /\ handlers[h].pc = "idle"
    /\ MoreUpdates
    /\ LET verdict == runSecurityChecks(keyStore, queryLog, inFlight, clock, u, chat)
           nansen == getNansenForUser(keyStore, u, chat)
       IN handlers' =
            [handlers EXCEPT ![h] =
               IF verdict = ""
                 THEN [pc |-> "checked", user |-> u, chat |-> chat,
                       owner |-> nansen[1].owner, apiKey |-> nansen[1].apiKey,
                       reason |-> ""]
               ELSE IF verdict = "dmonly" THEN IdleHandler
               ELSE Replying(u, chat, verdict)]
    /\ updatesLeft' = UpdateTaken
    /\ UNCHANGED <<keyStore, queryLog, inFlight, clock>>
    /\ UNCHANGED nonTelegramVars

\* `incrementQueryCount(userId)` follows `await handleTokenQuery(...)` in the
\* try block: it runs whenever handleTokenQuery returned, however it returned
\* ("unparsed", "report", "errorreply"), and not when it threw
CountsQuery(how) == how \in {"unparsed", "report", "errorreply"}

\* The rest of executeTokenQuery once handleTokenQuery has settled
AfterHandle(store, userId, how, clockNow) ==
  IF CountsQuery(how) THEN incrementQueryCount(store, userId, clockNow) ELSE store

\* executeTokenQuery up to the first await inside handleTokenQuery, for a
\* query that parseUserInput accepts
ExecuteStart ==
  \E h \in Slots :
    /\ handlers[h].pc = "checked"
    /\ queryLog' = recordQuery(queryLog, handlers[h].user, clock)
    /\ inFlight' = markQueryStart(inFlight, handlers[h].user)
    /\ handlers' = [handlers EXCEPT ![h].pc = "running"]
    /\ UNCHANGED <<keyStore, clock, updatesLeft>>
    /\ UNCHANGED nonTelegramVars

\* executeTokenQuery for a query that parseUserInput rejects (/token passes
\* any text on): handleTokenQuery returns at once and executeTokenQuery runs
\* to its end
ExecuteUnparsed ==
  \E h \in Slots :
    /\ handlers[h].pc = "checked"
    /\ queryLog' = recordQuery(queryLog, handlers[h].user, clock)
    /\ inFlight' = markQueryEnd(markQueryStart(inFlight, handlers[h].user),
                                handlers[h].user)
    /\ handlers' = [handlers EXCEPT ![h] = IdleHandler]
    /\ keyStore' = AfterHandle(keyStore, handlers[h].user, "unparsed", clock)
    /\ UNCHANGED <<clock, updatesLeft>>
    /\ UNCHANGED nonTelegramVars

\* handleTokenQuery has resolved the token, built the report and sent it; the
\* query is counted and the finally block runs markQueryEnd
ExecuteFinish ==
  \E h \in Slots :
    /\ handlers[h].pc = "running"
    /\ keyStore' = AfterHandle(keyStore, handlers[h].user, "report", clock)
    /\ inFlight' = markQueryEnd(inFlight, handlers[h].user)
    /\ handlers' = [handlers EXCEPT ![h] = IdleHandler]
    /\ UNCHANGED <<queryLog, clock, updatesLeft>>
    /\ UNCHANGED nonTelegramVars

\* sendChatAction before the try block of handleTokenQuery throws:
\* handleTokenQuery rejects and only the finally block runs
ExecuteThrows ==
  \E h \in Slots :
    /\ handlers[h].pc = "running"
    /\ keyStore' = AfterHandle(keyStore, handlers[h].user, "threw", clock)
    /\ inFlight' = markQueryEnd(inFlight, handlers[h].user)
    /\ handlers' = [handlers EXCEPT ![h] = IdleHandler]
    /\ UNCHANGED <<queryLog, clock, updatesLeft>>
    /\ UNCHANGED nonTelegramVars

\* resolveToken, buildTokenReport or sendLongMessage threw: the catch block of
\* handleTokenQuery sends the error reply
LookupFails ==
  \E h \in Slots :
    /\ handlers[h].pc = "running"
    /\ handlers' = [handlers EXCEPT ![h].pc = "failing"]
    /\ UNCHANGED <<keyStore, queryLog, inFlight, clock, updatesLeft>>
    /\ UNCHANGED nonTelegramVars

\* the error reply has been sent (handleTokenQuery returns), or sending it
\* threw (handleTokenQuery rejects)
ErrorReplyDone ==
  \E h \in Slots, sent \in BOOLEAN :
    /\ handlers[h].pc = "failing"
    /\ keyStore' = AfterHandle(keyStore, handlers[h].user,
                               IF sent THEN "errorreply" ELSE "threw", clock)
    /\ inFlight' = markQueryEnd(inFlight, handlers[h].user)
    /\ handlers' = [handlers EXCEPT ![h] = IdleHandler]
    /\ UNCHANGED <<queryLog, clock, updatesLeft>>
    /\ UNCHANGED nonTelegramVars

\* the reply of a rejected update has been sent
ReplyDone ==
  \E h \in Slots :
    /\ handlers[h].pc = "replying"
    /\ handlers' = [handlers EXCEPT ![h] = IdleHandler]
    /\ UNCHANGED <<keyStore, queryLog, inFlight, clock, updatesLeft>>
    /\ UNCHANGED nonTelegramVars

\* Date.now() advances
Tick ==
  /\ clock + TickMs <= GuardStartMs + MaxTicks * TickMs
  /\ clock' = clock + TickMs
  /\ UNCHANGED <<keyStore, queryLog, inFlight, handlers, updatesLeft>>
  /\ UNCHANGED nonTelegramVars

\* /setkey <key>: the message is deleted, then the chat and the argument are
\* looked at; the handler suspends at `await validateKey(apiKey)`
SetKeyArrives ==
  \E h \in Slots, u \in Users, chat \in Chats :
  \E apiKey \in SubmittedKeys(u) :
    /\ handlers[h].pc = "idle"
    /\ MoreUpdates
    /\ handlers' =
         [handlers EXCEPT ![h] =
            IF ~SetKeyAllowedIn(chat) THEN Replying(u, chat, "group")
            ELSE IF apiKey = "" THEN Replying(u, chat, "usage")
            ELSE [pc |-> "validating", user |-> u, chat |-> chat, owner |-> 0,
                  apiKey |-> apiKey, reason |-> ""]]
    /\ updatesLeft' = UpdateTaken
    /\ UNCHANGED <<keyStore, queryLog, inFlight, clock>>
    /\ UNCHANGED nonTelegramVars

\* validateKey settles; a valid key is stored
SetKeyFinish ==
  \E h \in Slots, valid \in BOOLEAN :
    /\ handlers[h].pc = "validating"
    /\ valid \in ValidateOutcomes(handlers[h].apiKey)
    /\ keyStore' = IF valid THEN setKey(keyStore, handlers[h].user, handlers[h].apiKey)
                   ELSE keyStore
    /\ handlers' = [handlers EXCEPT ![h] =
                      Replying(handlers[h].user, handlers[h].chat,
                               IF valid THEN "saved" ELSE "invalid")]
    /\ UNCHANGED <<queryLog, inFlight, clock, updatesLeft>>
    /\ UNCHANGED nonTelegramVars

\* /removekey
RemoveKey ==
  \E h \in Slots, u \in Users :
    /\ handlers[h].pc = "idle"
    /\ MoreUpdates
    /\ keyStore' = IF getKey(keyStore, u) = NULL THEN keyStore
                   ELSE deleteKey(keyStore, u)
    /\ handlers' = [handlers EXCEPT ![h] =
                      Replying(u, "private",
                               IF getKey(keyStore, u) = NULL THEN "needkey" ELSE "removed")]
    /\ updatesLeft' = UpdateTaken
    /\ UNCHANGED <<queryLog, inFlight, clock>>
    /\ UNCHANGED nonTelegramVars

\* /dmonly on | off, in any chat
DmOnly ==
  \E h \in Slots, u \in Users, enabled \in BOOLEAN :
    /\ handlers[h].pc = "idle"
    /\ MoreUpdates
    /\ keyStore' = IF getKey(keyStore, u) = NULL THEN keyStore
                   ELSE setDmOnly(keyStore, u, enabled)
    /\ handlers' = [handlers EXCEPT ![h] =
                      Replying(u, "private",
                               IF getKey(keyStore, u) = NULL THEN "needkey"
                               ELSE IF enabled THEN "dmonly-on" ELSE "dmonly-off")]
    /\ updatesLeft' = UpdateTaken
    /\ UNCHANGED <<queryLog, inFlight, clock>>
    /\ UNCHANGED nonTelegramVars

\* /allow as a reply to a message of `target`
Allow ==
  \E h \in Slots, u \in Users, chat \in Chats, target \in Users :
    /\ handlers[h].pc = "idle"
    /\ MoreUpdates
    /\ LET refused == IF IsPrivate(chat) THEN "groups-only"
                      ELSE IF getKey(keyStore, u) = NULL THEN "needkey"
                      ELSE ""
       IN /\ keyStore' = IF refused = "" THEN allowUser(keyStore, u, chat, target)
                         ELSE keyStore
          /\ handlers' = [handlers EXCEPT ![h] =
                            Replying(u, chat, IF refused = "" THEN "allowed" ELSE refused)]
    /\ updatesLeft' = UpdateTaken
    /\ UNCHANGED <<queryLog, inFlight, clock>>
    /\ UNCHANGED nonTelegramVars

\* /revoke as a reply to a message of `target`
Revoke ==
  \E h \in Slots, u \in Users, chat \in Chats, target \in Users :
    /\ handlers[h].pc = "idle"
    /\ MoreUpdates
    /\ LET refused == IF IsPrivate(chat) THEN "groups-only"
                      ELSE IF getKey(keyStore, u) = NULL THEN "needkey"
                      ELSE ""
       IN /\ keyStore' = IF refused = "" THEN revokeUser(keyStore, u, chat, target)
                         ELSE keyStore
          /\ handlers' = [handlers EXCEPT ![h] =
                            Replying(u, chat, IF refused = "" THEN "revoked" ELSE refused)]
    /\ updatesLeft' = UpdateTaken
    /\ UNCHANGED <<queryLog, inFlight, clock>>
    /\ UNCHANGED nonTelegramVars

\* Token queries of the users against the guard, with time passing
GuardNext ==
  \/ TokenArrives
  \/ ExecuteStart
  \/ ExecuteFinish
  \/ ReplyDone
  \/ Tick

\* Every Telegram update, a bounded number of them
AccessNext ==
  \/ TokenArrives
  \/ ExecuteStart
  \/ ExecuteFinish
  \/ ReplyDone
  \/ SetKeyArrives
  \/ SetKeyFinish
  \/ RemoveKey
  \/ DmOnly
  \/ Allow
  \/ Revoke

----------------------------------------------------------------------------
(* Twitter bot: usage counters (src/twitter/rateLimiter.ts) and the two timer
   loops of src/platforms/twitter.ts. Both loops run within one day and one
   month of the counters, so rolloverIfNeeded resets nothing. *)

Tiers == {"free", "basic"}

TIER_LIMITS(tierName) ==
  IF tierName = "basic" THEN [tweetsPerMonth |-> 3000, tweetsPerDay |-> 100]
  ELSE [tweetsPerMonth |-> 1500, tweetsPerDay |-> 50]

canTweet(tierName, today, thisMonth) ==
  /\ today < TIER_LIMITS(tierName).tweetsPerDay
  /\ thisMonth < TIER_LIMITS(tierName).tweetsPerMonth

\* Mentions on one fetched page and tweets in one reply thread
MaxMentions == 2
MaxParts == 2

\* runScheduledScan up to `await scanWatchlist(...)`
ScanStart ==
  /\ scanPc = "idle"
  /\ canTweet(tier, tweetsToday, tweetsThisMonth)
  /\ scanPc' = "scanning"
  /\ UNCHANGED <<tier, dryRun, tweetsToday, tweetsThisMonth, tweetsPosted, pollPc,
                 mentionsLeft, partsLeft>>
  /\ UNCHANGED nonTwitterVars

\* the rest of runScheduledScan: nothing to tweet, or postTweet and
\* recordTweetUsage
ScanFinish ==
  \E post \in BOOLEAN :
    /\ scanPc = "scanning"
    /\ scanPc' = "idle"
    /\ tweetsPosted' = IF post /\ ~dryRun THEN tweetsPosted + 1 ELSE tweetsPosted
    /\ tweetsToday' = IF post THEN tweetsToday + 1 ELSE tweetsToday
    /\ tweetsThisMonth' = IF post THEN tweetsThisMonth + 1 ELSE tweetsThisMonth
    /\ UNCHANGED <<tier, dryRun, pollPc, mentionsLeft, partsLeft>>
    /\ UNCHANGED nonTwitterVars

\* runMentionPoll up to the mention loop: a page of mentions has been fetched
PollStart ==
  \E n \in 1..MaxMentions :
    /\ pollPc = "idle"
    /\ pollPc' = "mention"
    /\ mentionsLeft' = n
    /\ UNCHANGED <<tier, dryRun, tweetsToday, tweetsThisMonth, tweetsPosted, scanPc,
                   partsLeft>>
    /\ UNCHANGED nonTwitterVars

\* head of the mention loop: the page is exhausted, the mention holds no token
\* query, canTweet fails (break), or the mention goes on to resolveToken
MentionCheck ==
  \E hasQuery \in BOOLEAN :
    /\ pollPc = "mention"
    /\ IF mentionsLeft = 0
         THEN pollPc' = "idle" /\ mentionsLeft' = 0
       ELSE IF ~hasQuery
         THEN pollPc' = "mention" /\ mentionsLeft' = mentionsLeft - 1
       ELSE IF ~canTweet(tier, tweetsToday, tweetsThisMonth)
         THEN pollPc' = "idle" /\ mentionsLeft' = 0
       ELSE pollPc' = "replying" /\ mentionsLeft' = mentionsLeft
    /\ UNCHANGED <<tier, dryRun, tweetsToday, tweetsThisMonth, tweetsPosted, scanPc,
                   partsLeft>>
    /\ UNCHANGED nonTwitterVars

\* resolveToken, buildTokenReport and generateReplyTweet have settled: no reply
\* (continue), or a thread of `parts` tweets; a dry run posts nothing and
\* records one tweet
MentionReply ==
  \E parts \in 0..MaxParts :
    /\ pollPc = "replying"
    /\ IF parts = 0
         THEN /\ pollPc' = "mention"
              /\ mentionsLeft' = mentionsLeft - 1
              /\ UNCHANGED <<partsLeft, tweetsToday, tweetsThisMonth>>
       ELSE IF dryRun
         THEN /\ pollPc' = "mention"
              /\ mentionsLeft' = mentionsLeft - 1
              /\ tweetsToday' = tweetsToday + 1
              /\ tweetsThisMonth' = tweetsThisMonth + 1
              /\ UNCHANGED partsLeft
       ELSE /\ pollPc' = "posting"
            /\ partsLeft' = parts
            /\ UNCHANGED <<mentionsLeft, tweetsToday, tweetsThisMonth>>
    /\ UNCHANGED <<tier, dryRun, tweetsPosted, scanPc>>
    /\ UNCHANGED nonTwitterVars

\* postReplyThread posts one tweet of the thread; after the last one
\* runMentionPoll calls recordTweetUsage once
PostPart ==
  /\ pollPc = "posting"
  /\ tweetsPosted' = tweetsPosted + 1
  /\ partsLeft' = partsLeft - 1
  /\ IF partsLeft = 1
       THEN /\ pollPc' = "mention"
            /\ mentionsLeft' = mentionsLeft - 1
            /\ tweetsToday' = tweetsToday + 1
            /\ tweetsThisMonth' = tweetsThisMonth + 1
     ELSE UNCHANGED <<pollPc, mentionsLeft, tweetsToday, tweetsThisMonth>>
  /\ UNCHANGED <<tier, dryRun, scanPc>>
  /\ UNCHANGED nonTwitterVars

TwitterNext ==
  \/ ScanStart
  \/ ScanFinish
  \/ PollStart
  \/ MentionCheck
  \/ MentionReply
  \/ PostPart

----------------------------------------------------------------------------
(* src/twitter/scanner.ts: scoreReport. Amounts are whole dollars, the price
   change whole percent; a signal string is the sequence of its pieces. *)

Abs(x) == IF x < 0 THEN 0 - x ELSE x

\* (num / den).toFixed(1) for num >= 0, den > 0: the digits before the point,
\* the point, the digit after it
ToFixed1(num, den) ==
  LET tenths == (20 * num + den) \div (2 * den)
  IN  <<ToString(tenths \div 10), ".", ToString(tenths % 10)>>

\* (num / den).toFixed(0)
ToFixed0(num, den) == <<ToString((2 * num + den) \div (2 * den))>>

NoScore == [score |-> 0, signals |-> <<>>]

\* score += points; signals.push(signal)
AddSignal(acc, points, signal) ==
  [score |-> acc.score + points, signals |-> Append(acc.signals, signal)]

\* Points of the smart-money net-flow tiers with both tiers tested separately
SmNetPointsStacked(net) ==
  (IF Abs(net) >= 1000000 THEN 30 ELSE 0) + (IF Abs(net) >= 500000 THEN 15 ELSE 0)

\* Points of the smart-money net-flow tiers (if / else if)
SmNetPoints(net) ==
  IF Abs(net) >= 1000000 THEN 30
  ELSE IF Abs(net) >= 500000 THEN 15
  ELSE 0

SmNetSignal(net) ==
  LET direction == IF net >= 0 THEN "buying" ELSE "selling"
  IN IF Abs(net) >= 1000000
       THEN <<"SM net ", direction, " $">> \o ToFixed1(Abs(net), 1000000) \o <<"M">>
     ELSE <<"SM net ", direction, " $">> \o ToFixed0(Abs(net), 1000) \o <<"K">>

\* Points of the buyer/seller imbalance: ratio = buyerCount / sellerCount is
\* computed only when both counts are positive
RatioPoints(buyerCount, sellerCount) ==
  IF buyerCount > 0 /\ sellerCount > 0
    THEN IF buyerCount >= 3 * sellerCount THEN 20
         ELSE IF 3 * buyerCount <= sellerCount THEN 20
         ELSE 0
  ELSE 0

RatioSignal(buyerCount, sellerCount) ==
  IF buyerCount >= 3 * sellerCount
    THEN ToFixed1(buyerCount, sellerCount) \o <<":1 buy/sell ratio">>
  ELSE ToFixed1(sellerCount, buyerCount) \o <<":1 sell/buy ratio">>

\* The two rows under `if (report.smartMoney.buySell)`
SmartMoneyRows(acc, buySell) ==
  IF buySell = NULL THEN acc
  ELSE LET bs == buySell[1]
           afterNet == IF SmNetPoints(bs.netFlowUsd) > 0
                         THEN AddSignal(acc, SmNetPoints(bs.netFlowUsd),
                                        SmNetSignal(bs.netFlowUsd))
                       ELSE acc
       IN IF RatioPoints(bs.buyerCount, bs.sellerCount) > 0
            THEN AddSignal(afterNet, RatioPoints(bs.buyerCount, bs.sellerCount),
                           RatioSignal(bs.buyerCount, bs.sellerCount))
          ELSE afterNet

\* Skipping only a zero average
SkipSegmentZeroAvgOnly(flow) == flow.avgFlowUsd = 0

\* if (flow.avgFlowUsd === 0 || flow.walletCount === 0) continue
SkipSegment(flow) == flow.avgFlowUsd = 0 \/ flow.walletCount = 0

\* The bonus of Exchanges given for inflow and outflow alike
SegmentPointsAnyExchangeFlow(flow) ==
  IF SkipSegment(flow) THEN 0
  ELSE IF Abs(flow.netFlowUsd) >= 3 * Abs(flow.avgFlowUsd) /\ Abs(flow.netFlowUsd) >= 100000
    THEN IF flow.name = "Smart Traders" \/ flow.name = "Whales" THEN 25
         ELSE IF flow.name = "Exchanges" THEN 15
         ELSE 0
  ELSE 0

\* Points of one flow segment: ratio = |net / avg| >= 3 and |net| >= 100000
SegmentPoints(flow) ==
  IF SkipSegment(flow) THEN 0
  ELSE IF Abs(flow.netFlowUsd) >= 3 * Abs(flow.avgFlowUsd) /\ Abs(flow.netFlowUsd) >= 100000
    THEN IF flow.name = "Smart Traders" \/ flow.name = "Whales" THEN 25
         ELSE IF flow.name = "Exchanges" /\ flow.netFlowUsd < 0 THEN 15
         ELSE 0
  ELSE 0

SegmentSignal(flow) ==
  LET ratio == ToFixed1(Abs(flow.netFlowUsd), Abs(flow.avgFlowUsd))
  IN IF flow.name = "Exchanges" THEN <<"Exchange outflow ">> \o ratio \o <<"x avg">>
     ELSE <<flow.name, " ">> \o ratio
            \o <<"x avg ", IF flow.netFlowUsd >= 0 THEN "inflow" ELSE "outflow">>

\* for (const flow of report.flows) { ... }
RECURSIVE FlowRows(_, _)
FlowRows(acc, flows) ==
  IF flows = <<>> THEN acc
  ELSE FlowRows(IF SegmentPoints(Head(flows)) > 0
                  THEN AddSignal(acc, SegmentPoints(Head(flows)), SegmentSignal(Head(flows)))
                ELSE acc,
                Tail(flows))

\* report.flows.find((f) => f.name === 'Whales'): NULL or <<segment>>
FindWhales(flows) ==
  IF \E i \in 1..Len(flows) : flows[i].name = "Whales"
    THEN Some(flows[CHOOSE i \in 1..Len(flows) :
                      /\ flows[i].name = "Whales"
                      /\ \A j \in 1..(i - 1) : flows[j].name # "Whales"])
  ELSE NULL

WhalePoints(flows) ==
  IF FindWhales(flows) # NULL /\ Abs(FindWhales(flows)[1].netFlowUsd) >= 5000000
    THEN 20 ELSE 0

WhaleRow(acc, flows) ==
  IF WhalePoints(flows) > 0
    THEN LET net == FindWhales(flows)[1].netFlowUsd
         IN AddSignal(acc, WhalePoints(flows),
                      <<"Whale ", IF net >= 0 THEN "accumulation" ELSE "distribution", " $">>
                        \o ToFixed1(Abs(net), 1000000) \o <<"M">>)
  ELSE acc

PricePoints(change) == IF change # NULL /\ Abs(change[1]) >= 10 THEN 10 ELSE 0

PriceRow(acc, change) ==
  IF PricePoints(change) > 0
    THEN AddSignal(acc, PricePoints(change),
                   <<"Price ", IF change[1] >= 0 THEN "up" ELSE "down", " ">>
                     \o ToFixed1(Abs(change[1]), 1) \o <<"%">>)
  ELSE acc

\* scoreReport returning as soon as the smart-money rows have scored
scoreReportEarlyExit(rep) ==
  LET sm == SmartMoneyRows(NoScore, rep.smartMoney.buySell)
  IN IF sm.score > 0 THEN sm
     ELSE PriceRow(WhaleRow(FlowRows(sm, rep.flows), rep.flows), rep.priceChange24h)

\* scoreReport: the rows in the order of the code, each adding to the same
\* score and signals
scoreReport(rep) ==
  PriceRow(WhaleRow(FlowRows(SmartMoneyRows(NoScore, rep.smartMoney.buySell), rep.flows),
                    rep.flows),
           rep.priceChange24h)

\* ---- reports given to scoreReport ----
NoDataSegment == [netFlowUsd |-> 0, avgFlowUsd |-> 0, walletCount |-> 0]
AtRatioThree == [netFlowUsd |-> 300000, avgFlowUsd |-> 100000, walletCount |-> 5]
BigOutflow == [netFlowUsd |-> -6000000, avgFlowUsd |-> 1000000, walletCount |-> 3]
BelowRatio == [netFlowUsd |-> 299999, avgFlowUsd |-> 100000, walletCount |-> 4]
SmallAmount == [netFlowUsd |-> 99999, avgFlowUsd |-> 1000, walletCount |-> 2]
ZeroAverage == [netFlowUsd |-> 5000000, avgFlowUsd |-> 0, walletCount |-> 7]
NoWallets == [netFlowUsd |-> -400000, avgFlowUsd |-> 100000, walletCount |-> 0]
NegativeAverage == [netFlowUsd |-> 100000, avgFlowUsd |-> -20000, walletCount |-> 3]

SmartTraderSamples ==
  {NoDataSegment, AtRatioThree, BigOutflow, BelowRatio, SmallAmount, ZeroAverage,
   NoWallets, NegativeAverage}
WhaleSamples == {NoDataSegment, BigOutflow, ZeroAverage, BelowRatio}
ExchangeSamples == {NoDataSegment, AtRatioThree, BigOutflow, NoWallets}
OtherSamples == {NoDataSegment, BigOutflow}

Segment(name, s) ==
  [name |-> name, netFlowUsd |-> s.netFlowUsd, avgFlowUsd |-> s.avgFlowUsd,
   walletCount |-> s.walletCount]

\* report.flows: empty, or the six segments of extractFlows
ScoreFlows ==
  {<<>>} \cup
  { << Segment("Smart Traders", st), Segment("Whales", wh), Segment("Public Figures", ot),
       Segment("Exchanges", ex), Segment("Top PnL Traders", ot),
       Segment("Fresh Wallets", ot) >> :
    st \in SmartTraderSamples, wh \in WhaleSamples, ex \in ExchangeSamples,
    ot \in OtherSamples }

ScoreBuySells ==
  { [netFlowUsd |-> net, buyerCount |-> c[1], sellerCount |-> c[2]] :
    net \in {1000000, 999999, 500000, 499999, -1000000, -600000},
    c \in {<<3, 1>>, <<1, 3>>, <<2, 1>>, <<5, 0>>, <<0, 0>>} }

ScoreReports ==
  { [smartMoney |-> [buySell |-> bs], flows |-> fl, priceChange24h |-> pc] :
    bs \in Opt(ScoreBuySells), fl \in ScoreFlows, pc \in Opt({10, -9}) }

\* scoreReport(report) is called and returns
ScoreReport ==
  /\ scorePc = "given"
  /\ scoreOutput' = Some(scoreReport(scoreInput[1]))
  /\ scorePc' = "scored"
  /\ UNCHANGED scoreInput
  /\ UNCHANGED nonScoreVars

ScoreNext ==
  \/ ScoreReport

----------------------------------------------------------------------------
(* src/twitter/scanner.ts: scanWatchlist. A token is its index in the list;
   a result keeps the token, its score and its signals. *)

DefaultMinScore == 30
MaxTokens == 4

\* Reports that buildTokenReport can settle to, scoring 10, 30, 45 and 60
PriceOnlyReport ==
  [smartMoney |-> [buySell |-> NULL], flows |-> <<>>, priceChange24h |-> Some(10)]
MillionReport ==
  [smartMoney |-> [buySell |-> Some([netFlowUsd |-> 1000000, buyerCount |-> 2,
                                     sellerCount |-> 1])],
   flows |-> <<>>, priceChange24h |-> NULL]
OutflowReport ==
  [smartMoney |-> [buySell |-> Some([netFlowUsd |-> 1000000, buyerCount |-> 2,
                                     sellerCount |-> 1])],
   flows |-> << Segment("Exchanges", BigOutflow) >>, priceChange24h |-> NULL]
BusyReport ==
  [smartMoney |-> [buySell |-> Some([netFlowUsd |-> -1000000, buyerCount |-> 1,
                                     sellerCount |-> 3])],
   flows |-> <<>>, priceChange24h |-> Some(10)]

ScanReports == {PriceOnlyReport, MillionReport, OutflowReport, BusyReport}

\* What `await buildTokenReport(token, nansen)` settles to: NULL is a rejection
BuildOutcomes == Opt(ScanReports)

\* Keeping only the scores above minScore
KeepResultAbove(score, minScore) == score > minScore

\* if (score >= minScore)
KeepResult(score, minScore) == score >= minScore

\* Insert r into a list sorted by descending interestScore, after its equals
RECURSIVE InsertByScore(_, _)
InsertByScore(r, sorted) ==
  IF sorted = <<>> THEN <<r>>
  ELSE IF Head(sorted).interestScore >= r.interestScore
         THEN <<Head(sorted)>> \o InsertByScore(r, Tail(sorted))
       ELSE <<r>> \o sorted

\* results.sort((a, b) => b.interestScore - a.interestScore): stable
RECURSIVE SortByScore(_)
SortByScore(results) ==
  IF results = <<>> THEN <<>>
  ELSE InsertByScore(results[Len(results)],
                     SortByScore(SubSeq(results, 1, Len(results) - 1)))

\* A rejected build or a throwing scoreReport escaping the loop body
CatchesNothing == FALSE

\* try { ... } catch (error) { console.error(...) } around the loop body
CatchesErrors == TRUE

\* Sleeping after every token
NeedsDelayAlways(i, n) == TRUE

\* if (i < tokens.length - 1) await sleep(SCAN_DELAY_MS)
NeedsDelay(i, n) == i < n - 1

\* The loop is entered at index i: the build of token i starts, or, at the end
\* of the list, the results are sorted and returned
EnterLoop(i) ==
  IF i < watchTokens
    THEN /\ watchPc' = "building"
         /\ watchInFlight' = watchInFlight \cup {i}
         /\ watchEvents' = Append(watchEvents, <<"build", i>>)
         /\ UNCHANGED watchResults
  ELSE /\ watchPc' = "returned"
       /\ watchResults' = SortByScore(watchResults)
       /\ watchEvents' = Append(watchEvents, <<"return", i>>)
       /\ UNCHANGED watchInFlight

\* scanWatchlist(tokens, nansen, minScore) is called
CallScan ==
  /\ watchPc = "idle"
  /\ EnterLoop(0)
  /\ UNCHANGED <<watchTokens, watchMinScore, watchI, watchOutcomes>>
  /\ UNCHANGED nonWatchVars

\* buildTokenReport of token i settles: the report is scored and kept if it
\* reaches minScore, a failure is caught; then the delay starts, or, after the
\* last token, the loop ends
SettleBuild ==
  \E outcome \in BuildOutcomes :
    /\ watchPc = "building"
    /\ LET scored == IF outcome = NULL THEN NULL ELSE Some(scoreReport(outcome[1]))
           kept == IF scored # NULL /\ KeepResult(scored[1].score, watchMinScore)
                     THEN Append(watchResults,
                                 [token |-> watchI, interestScore |-> scored[1].score,
                                  signals |-> scored[1].signals])
                   ELSE watchResults
           settled == Append(watchEvents, <<"settled", watchI>>)
       IN /\ watchOutcomes' =
               Append(watchOutcomes, IF scored = NULL THEN NULL ELSE Some(scored[1].score))
          /\ watchInFlight' = watchInFlight \ {watchI}
          /\ IF outcome = NULL /\ ~CatchesErrors
               THEN /\ watchPc' = "failed"
                    /\ watchResults' = kept
                    /\ watchEvents' = settled
                    /\ UNCHANGED watchI
             ELSE IF NeedsDelay(watchI, watchTokens)
               THEN /\ watchPc' = "sleeping"
                    /\ watchResults' = kept
                    /\ watchEvents' = Append(settled, <<"sleep", watchI>>)
                    /\ UNCHANGED watchI
             ELSE /\ watchPc' = "returned"
                  /\ watchI' = watchI + 1
                  /\ watchResults' = SortByScore(kept)
                  /\ watchEvents' = Append(settled, <<"return", watchI + 1>>)
    /\ UNCHANGED <<watchTokens, watchMinScore>>
    /\ UNCHANGED nonWatchVars

\* sleep(SCAN_DELAY_MS) is over: i++ and the loop is entered again
Wake ==
  /\ watchPc = "sleeping"
  /\ watchI' = watchI + 1
  /\ LET woke == Append(watchEvents, <<"woke", watchI>>)
     IN IF watchI + 1 < watchTokens
          THEN /\ watchPc' = "building"
               /\ watchInFlight' = watchInFlight \cup {watchI + 1}
               /\ watchEvents' = Append(woke, <<"build", watchI + 1>>)
               /\ UNCHANGED watchResults
        ELSE /\ watchPc' = "returned"
             /\ watchResults' = SortByScore(watchResults)
             /\ watchEvents' = Append(woke, <<"return", watchI + 1>>)
             /\ UNCHANGED watchInFlight
  /\ UNCHANGED <<watchTokens, watchMinScore, watchOutcomes>>
  /\ UNCHANGED nonWatchVars

WatchNext ==
  \/ CallScan
  \/ SettleBuild
  \/ Wake

----------------------------------------------------------------------------
(* src/core/lookup.ts: one call of buildSmartMoneySection on raw trade lists *)

MaxTraders == 5

\* Volumes a trade entry can carry: missing, negative, zero, positive
RawVolumes == Opt({-5, 0, 3, 7})

\* The k-th entry of a raw list, labelled by its position
RawTrader(k, bought, sold) ==
  Trader(ShortAddr, <<"T", ToString(k)>>, bought, sold)

\* Raw buyer lists of up to MaxTraders entries
RawBuyerLists ==
  UNION { { [k \in 1..n |-> RawTrader(k, vols[k], NULL)] : vols \in [1..n -> RawVolumes] } :
          n \in 0..MaxTraders }

\* Raw seller lists
RawSellerLists ==
  { <<>>,
    << RawTrader(1, NULL, Some(3)), RawTrader(2, NULL, Some(-5)),
       RawTrader(3, Some(7), Some(0)), RawTrader(4, NULL, NULL) >>,
    << RawTrader(1, NULL, Some(3)), RawTrader(2, NULL, Some(7)),
       RawTrader(3, NULL, Some(3)), RawTrader(4, NULL, Some(7)),
       RawTrader(5, NULL, Some(3)) >> }

\* The arrays after `list.filter(t => t[f] > 0).sort(...)`: filter allocates a
\* new array (scratch), sort reorders its receiver in place
ArraysAfterTop(arrays, side, f) ==
  LET filtered == [arrays EXCEPT !.scratch = FilterPositive(arrays[side], f)]
  IN  [filtered EXCEPT !.scratch = SortDesc(filtered.scratch, f)]

\* buildSmartMoneySection(data) runs (it is synchronous)
BuildSection ==
  /\ sectionPc = "given"
  /\ sectionPc' = "built"
  /\ sectionOut' = Some(buildSmartMoneySection(sectionData))
  /\ sectionData' =
       IF sectionData = NULL THEN NULL
       ELSE LET arrays == [buyers |-> sectionData[1].buyers,
                           sellers |-> sectionData[1].sellers, scratch |-> <<>>]
                after == ArraysAfterTop(ArraysAfterTop(arrays, "buyers", "bought_volume_usd"),
                                        "sellers", "sold_volume_usd")
            IN  Some([buyers |-> after.buyers, sellers |-> after.sellers])
  /\ UNCHANGED nonSectionVars

SectionNext ==
  \/ BuildSection

----------------------------------------------------------------------------
(* src/twitter/state.ts and runScheduledScan: deduplication of scheduled
   tweets. Time is counted in whole hours. *)

DEDUP_HOURS == 12

\* The hours between two scans, and the hours the model runs for
TickHours == 6
MaxHours == 36

\* Symbols of the watchlist tokens a scan can find interesting, best first
ScanFindings == { <<>>, <<"ETH">>, <<"PEPE">>, <<"ETH", "PEPE">>, <<"PEPE", "ETH">> }

\* The entries of recentTweets younger than the cutoff
YoungerThan(tweets, cutoff) == SelectSeq(tweets, LAMBDA t : t.tweetedAt > cutoff)

\* wasRecentlyTweeted(symbol)
wasRecentlyTweeted(tweets, symbol, clockNow) ==
  \E k \in 1..Len(tweets) :
    /\ ToUpperCase(tweets[k].symbol) = ToUpperCase(symbol)
    /\ tweets[k].tweetedAt > clockNow - DEDUP_HOURS

\* recordTweet(symbol): prune the old entries, push the new one
recordTweet(tweets, symbol, clockNow) ==
  Append(YoungerThan(tweets, clockNow - DEDUP_HOURS),
         [symbol |-> ToUpperCase(symbol), tweetedAt |-> clockNow])

\* results.filter((r) => !wasRecentlyTweeted(r.token.symbol))
FreshOf(results, tweets, clockNow) ==
  SelectSeq(results, LAMBDA sym : ~wasRecentlyTweeted(tweets, sym, clockNow))

\* runScheduledScan from the return of scanWatchlist to the call of
\* generateScheduledTweet: nothing interesting or nothing fresh ends the run
DedupScan ==
  \E results \in ScanFindings :
    /\ dedupPc = "idle"
    /\ LET fresh == FreshOf(results, recentTweets, dedupClock)
       IN  IF results = <<>> \/ fresh = <<>>
             THEN /\ UNCHANGED dedupPc
                  /\ freshResults' = <<>>
           ELSE /\ dedupPc' = "generating"
                /\ freshResults' = fresh
    /\ UNCHANGED <<dedupClock, recentTweets, tweetLog>>
    /\ UNCHANGED nonDedupVars

\* generateScheduledTweet and postTweet settle: no text or a failed post ends
\* the run, else the tweet about fresh[0] is out and recorded
DedupPost ==
  \E outcome \in {"notext", "postfails", "posted"} :
    /\ dedupPc = "generating"
    /\ dedupPc' = "idle"
    /\ freshResults' = <<>>
    /\ IF outcome = "posted"
         THEN /\ tweetLog' = Append(tweetLog, [symbol |-> freshResults[1], at |-> dedupClock])
              /\ recentTweets' = recordTweet(recentTweets, freshResults[1], dedupClock)
       ELSE UNCHANGED <<tweetLog, recentTweets>>
    /\ UNCHANGED dedupClock
    /\ UNCHANGED nonDedupVars

\* Time passes until the next scan is due
DedupTick ==
  /\ dedupPc = "idle"
  /\ dedupClock < MaxHours
  /\ dedupClock' = dedupClock + TickHours
  /\ UNCHANGED <<dedupPc, recentTweets, freshResults, tweetLog>>
  /\ UNCHANGED nonDedupVars

DedupNext ==
  \/ DedupScan
  \/ DedupPost
  \/ DedupTick

----------------------------------------------------------------------------
(* src/nansen/client.ts: NansenClient.post *)

maxRetries == 3

\* What one fetch can come to: a JSON body, a body that does not parse, a
\* rate-limit answer, another non-OK answer, or a network error
FetchOutcomes ==
  { [kind |-> "ok", detail |-> "bodyA"], [kind |-> "ok", detail |-> "bodyB"],
    [kind |-> "badjson", detail |-> "SyntaxError"],
    [kind |-> "429", detail |-> "rate limited"],
    [kind |-> "notok", detail |-> "Nansen API 500"],
    [kind |-> "notok", detail |-> "Nansen API 404"],
    [kind |-> "throw", detail |-> "fetch failed"] }

\* Math.pow(2, attempt)
RECURSIVE Pow2(_)
Pow2(n) == IF n = 0 THEN 1 ELSE 2 * Pow2(n - 1)

\* Math.pow(2, attempt) * 1000
BackoffRateLimited(attempt) == Pow2(attempt) * 1000

\* 1000 * (attempt + 1)
BackoffFailure(attempt) == 1000 * (attempt + 1)

\* A rate-limit answer leaving the attempt count alone
AttemptAfterSleepFree(attempt, why) == IF why = "429" THEN attempt ELSE attempt + 1

\* attempt++ of the for loop, reached by `continue` and by the end of the catch
AttemptAfterSleep(attempt, why) == attempt + 1

Fetched(log, attempt) == Append(log, [kind |-> "fetch", n |-> attempt, why |-> "loop"])

\* post(endpoint, body) is called: the first fetch goes out
PostCall ==
  /\ postPc = "idle"
  /\ postPc' = "fetching"
  /\ postAttempt' = 0
  /\ postLog' = Fetched(postLog, 0)
  /\ UNCHANGED postResult
  /\ UNCHANGED nonPostVars

\* The fetch of this attempt settles (with response.text() or response.json())
PostSettle ==
  \E outcome \in FetchOutcomes :
    /\ postPc = "fetching"
    /\ IF outcome.kind = "ok"
         THEN /\ postPc' = "returned"
              /\ postResult' = Some([kind |-> "body", value |-> outcome.detail])
              /\ UNCHANGED postLog
       ELSE IF outcome.kind = "429"
         THEN /\ postPc' = "sleeping"
              /\ postLog' = Append(postLog, [kind |-> "sleep",
                                            n |-> BackoffRateLimited(postAttempt),
                                            why |-> "429"])
              /\ UNCHANGED postResult
       ELSE IF postAttempt = maxRetries - 1
         THEN /\ postPc' = "thrown"
              /\ postResult' = Some([kind |-> "error", value |-> outcome.detail])
              /\ UNCHANGED postLog
       ELSE /\ postPc' = "sleeping"
            /\ postLog' = Append(postLog, [kind |-> "sleep",
                                          n |-> BackoffFailure(postAttempt),
                                          why |-> outcome.kind])
            /\ UNCHANGED postResult
    /\ UNCHANGED postAttempt
    /\ UNCHANGED nonPostVars

\* The sleep is over: the loop goes on to the next attempt, or ends and the
\* function throws 'Max retries exceeded'
PostWake ==
  /\ postPc = "sleeping"
  /\ LET next == AttemptAfterSleep(postAttempt, postLog[Len(postLog)].why)
     IN  /\ postAttempt' = next
         /\ IF next < maxRetries
              THEN /\ postPc' = "fetching"
                   /\ postLog' = Fetched(postLog, next)
                   /\ UNCHANGED postResult
            ELSE /\ postPc' = "thrown"
                 /\ postResult' = Some([kind |-> "error", value |-> "Max retries exceeded"])
                 /\ UNCHANGED postLog
  /\ UNCHANGED nonPostVars

PostNext ==
  \/ PostCall
  \/ PostSettle
  \/ PostWake

----------------------------------------------------------------------------
(* Telegram bot: usage statistics. User 1 holds a key, has run some queries
   and has allowed user 2 in one group. *)

\* User 1's entry in keys.json
OwnerConfig(dmOnly) ==
  [apiKey |-> GoodKey(1), dmOnly |-> dmOnly, queryCount |-> 2, lastQueryAt |-> Some(0),
   allowedUsers |-> [g \in Groups |-> IF g = "groupA" THEN {2} ELSE {}]]

\* Token queries and /setkey, with every way a lookup can end
StatsNext ==
  \/ TokenArrives
  \/ ExecuteStart
  \/ ExecuteUnparsed
  \/ ExecuteFinish
  \/ ExecuteThrows
  \/ LookupFails
  \/ ErrorReplyDone
  \/ ReplyDone
  \/ SetKeyArrives
  \/ SetKeyFinish

----------------------------------------------------------------------------
(* Mention poll of the Twitter bot: runMentionPoll (src/platforms/twitter.ts)
   and lastMentionId of src/twitter/state.ts. A mention id is a string of
   digits of one length, so the `>` of the code orders ids as numbers; the
   ids are 1..mentionCount in the order the mentions were written. canRead
   passes, and the poll runs within one day and one month of the counters. *)

\* Mentions written in a run
MaxMentionIds == 3

\* max_results of the userMentionTimeline call
max_results == 10

\* The first n elements of a sequence
Take(seq, n) == SubSeq(seq, 1, IF Len(seq) < n THEN Len(seq) ELSE n)

\* The ids lo..hi, newest first or oldest first
IdsDescending(lo, hi) == [k \in 1..(hi - lo + 1) |-> hi - k + 1]
IdsAscending(lo, hi) == [k \in 1..(hi - lo + 1) |-> lo + k - 1]

\* `if (!newestId || mention.id > newestId) newestId = mention.id`
NewestAfter(newest, mentionId) ==
  IF newest = NULL THEN Some(mentionId)
  ELSE IF mentionId > newest[1] THEN Some(mentionId)
  ELSE newest

\* somebody mentions the bot
NewMention ==
  /\ mentionCount < MaxMentionIds
  /\ mentionCount' = mentionCount + 1
  /\ UNCHANGED <<mentionPc, lastMentionId, mentionPage, mentionPos, newestId>>
  /\ UNCHANGED nonMentionVars

\* runMentionPoll up to the mention loop: the mentions after since_id have been
\* fetched, in the order the API gives them, and the page is not empty (an
\* empty page returns and changes nothing)
PollFetch ==
  \E newestFirst \in BOOLEAN :
    /\ mentionPc = "idle"
    /\ LET lo == IF lastMentionId = NULL THEN 1 ELSE lastMentionId[1] + 1
           found == IF newestFirst THEN IdsDescending(lo, mentionCount)
                    ELSE IdsAscending(lo, mentionCount)
       IN /\ lo <= mentionCount
          /\ mentionPage' = Take(found, max_results)
    /\ mentionPos' = 1
    /\ newestId' = lastMentionId
    /\ mentionPc' = "loop"
    /\ UNCHANGED <<lastMentionId, mentionCount>>
    /\ UNCHANGED nonMentionVars

\* one pass of the mention loop: newestId is updated first; then the mention
\* holds no token query (continue), canTweet fails (break), the query is not
\* answered (a continue or a caught error), or a reply thread is posted and
\* recordTweetUsage is called
MentionStep ==
  \E outcome \in {"noquery", "skipped", "replied"} :
    /\ mentionPc = "loop"
    /\ newestId' = NewestAfter(newestId, mentionPage[mentionPos])
    /\ IF outcome # "noquery" /\ ~canTweet(tier, tweetsToday, tweetsThisMonth)
         THEN /\ mentionPc' = "saving"
              /\ UNCHANGED <<mentionPos, tweetsToday, tweetsThisMonth>>
       ELSE /\ mentionPc' = IF mentionPos = Len(mentionPage) THEN "saving" ELSE "loop"
            /\ mentionPos' = mentionPos + 1
            /\ tweetsToday' = IF outcome = "replied" THEN tweetsToday + 1 ELSE tweetsToday
            /\ tweetsThisMonth' =
                 IF outcome = "replied" THEN tweetsThisMonth + 1 ELSE tweetsThisMonth
    /\ UNCHANGED <<lastMentionId, mentionCount, mentionPage>>
    /\ UNCHANGED <<tier, dryRun, tweetsPosted, scanPc, pollPc, mentionsLeft, partsLeft>>
    /\ UNCHANGED <<buildVars, resolveVars, parserVars, telegramVars, scannerVars,
                   dedupVars, postVars>>

\* after the loop: `if (newestId) setLastMentionId(newestId)`
PollSave ==
  /\ mentionPc = "saving"
  /\ lastMentionId' = IF newestId # NULL THEN newestId ELSE lastMentionId
  /\ mentionPc' = "idle"
  /\ mentionPage' = <<>>
  /\ mentionPos' = 0
  /\ newestId' = NULL
  /\ UNCHANGED mentionCount
  /\ UNCHANGED nonMentionVars

MentionNext ==
  \/ NewMention
  \/ PollFetch
  \/ MentionStep
  \/ PollSave

----------------------------------------------------------------------------
(* Specifications *)

\* Nothing has been called yet
Init ==
  /\ buildPc = "idle"
  /\ token = NULL
  /\ tokenInfoResult = Pending
  /\ flowsResult = Pending
  /\ smartMoneyResult = Pending
  /\ cgResult = Pending
  /\ cgStage = "first"
  /\ report = NULL
  /\ resolvePc = "idle"
  /\ parsed = NULL
  /\ screener = NULL
  /\ searchStatus = ""
  /\ coins = <<>>
  /\ candidates = <<>>
  /\ idx = 1
  /\ detailLog = <<>>
  /\ contractLog = <<>>
  /\ resolved = NULL
  /\ resolveError = ""
  /\ parserPc = "received"
  /\ message = <<>>
  /\ gateResult = FALSE
  /\ parseResult = NULL
  /\ extractResult = NULL
  /\ keyStore = [u \in Users |-> NULL]
  /\ queryLog = [u \in Users |-> <<>>]
  /\ inFlight = {}
  /\ clock = 0
  /\ handlers = [h \in Slots |-> IdleHandler]
  /\ updatesLeft = NULL
  /\ tier = "free"
  /\ dryRun = FALSE
  /\ tweetsToday = 0
  /\ tweetsThisMonth = 0
  /\ tweetsPosted = 0
  /\ scanPc = "idle"
  /\ pollPc = "idle"
  /\ mentionsLeft = 0
  /\ partsLeft = 0
  /\ scorePc = "idle"
  /\ scoreInput = NULL
  /\ scoreOutput = NULL
  /\ watchPc = "idle"
  /\ watchTokens = 0
  /\ watchMinScore = 0
  /\ watchI = 0
  /\ watchOutcomes = <<>>
  /\ watchResults = <<>>
  /\ watchInFlight = {}
  /\ watchEvents = <<>>
  /\ sectionPc = "idle"
  /\ sectionData = NULL
  /\ sectionOut = NULL
  /\ dedupPc = "idle"
  /\ dedupClock = 0
  /\ recentTweets = <<>>
  /\ freshResults = <<>>
  /\ tweetLog = <<>>
  /\ postPc = "idle"
  /\ postAttempt = 0
  /\ postLog = <<>>
  /\ postResult = NULL
  /\ mentionPc = "idle"
  /\ lastMentionId = NULL
  /\ mentionCount = 0
  /\ mentionPage = <<>>
  /\ mentionPos = 0
  /\ newestId = NULL

\* The same idle state with a message text received
InitParse ==
  /\ buildPc = "idle"
  /\ token = NULL
  /\ tokenInfoResult = Pending
  /\ flowsResult = Pending
  /\ smartMoneyResult = Pending
  /\ cgResult = Pending
  /\ cgStage = "first"
  /\ report = NULL
  /\ resolvePc = "idle"
  /\ parsed = NULL
  /\ screener = NULL
  /\ searchStatus = ""
  /\ coins = <<>>
  /\ candidates = <<>>
  /\ idx = 1
  /\ detailLog = <<>>
  /\ contractLog = <<>>
  /\ resolved = NULL
  /\ resolveError = ""
  /\ parserPc = "received"
  /\ message \in Messages
  /\ gateResult = FALSE
  /\ parseResult = NULL
  /\ extractResult = NULL
  /\ keyStore = [u \in Users |-> NULL]
  /\ queryLog = [u \in Users |-> <<>>]
  /\ inFlight = {}
  /\ clock = 0
  /\ handlers = [h \in Slots |-> IdleHandler]
  /\ updatesLeft = NULL
  /\ tier = "free"
  /\ dryRun = FALSE
  /\ tweetsToday = 0
  /\ tweetsThisMonth = 0
  /\ tweetsPosted = 0
  /\ scanPc = "idle"
  /\ pollPc = "idle"
  /\ mentionsLeft = 0
  /\ partsLeft = 0
  /\ scorePc = "idle"
  /\ scoreInput = NULL
  /\ scoreOutput = NULL
  /\ watchPc = "idle"
  /\ watchTokens = 0
  /\ watchMinScore = 0
  /\ watchI = 0
  /\ watchOutcomes = <<>>
  /\ watchResults = <<>>
  /\ watchInFlight = {}
  /\ watchEvents = <<>>
  /\ sectionPc = "idle"
  /\ sectionData = NULL
  /\ sectionOut = NULL
  /\ dedupPc = "idle"
  /\ dedupClock = 0
  /\ recentTweets = <<>>
  /\ freshResults = <<>>
  /\ tweetLog = <<>>
  /\ postPc = "idle"
  /\ postAttempt = 0
  /\ postLog = <<>>
  /\ postResult = NULL
  /\ mentionPc = "idle"
  /\ lastMentionId = NULL
  /\ mentionCount = 0
  /\ mentionPage = <<>>
  /\ mentionPos = 0
  /\ newestId = NULL

\* The bot running with the key of user 1 in keys.json, user 1 having made no
\* query yet or the queries of BusyLog
InitGuard ==
  /\ buildPc = "idle"
  /\ token = NULL
  /\ tokenInfoResult = Pending
  /\ flowsResult = Pending
  /\ smartMoneyResult = Pending
  /\ cgResult = Pending
  /\ cgStage = "first"
  /\ report = NULL
  /\ resolvePc = "idle"
  /\ parsed = NULL
  /\ screener = NULL
  /\ searchStatus = ""
  /\ coins = <<>>
  /\ candidates = <<>>
  /\ idx = 1
  /\ detailLog = <<>>
  /\ contractLog = <<>>
  /\ resolved = NULL
  /\ resolveError = ""
  /\ parserPc = "received"
  /\ message = <<>>
  /\ gateResult = FALSE
  /\ parseResult = NULL
  /\ extractResult = NULL
  /\ keyStore = [u \in Users |-> IF u = 1 THEN Some(NewConfig(GoodKey(u), FALSE)) ELSE NULL]
  /\ queryLog \in {[u \in Users |-> <<>>], [u \in Users |-> IF u = 1 THEN BusyLog ELSE <<>>]}
  /\ inFlight = {}
  /\ clock = GuardStartMs
  /\ handlers = [h \in Slots |-> IdleHandler]
  /\ updatesLeft = NULL
  /\ tier = "free"
  /\ dryRun = FALSE
  /\ tweetsToday = 0
  /\ tweetsThisMonth = 0
  /\ tweetsPosted = 0
  /\ scanPc = "idle"
  /\ pollPc = "idle"
  /\ mentionsLeft = 0
  /\ partsLeft = 0
  /\ scorePc = "idle"
  /\ scoreInput = NULL
  /\ scoreOutput = NULL
  /\ watchPc = "idle"
  /\ watchTokens = 0
  /\ watchMinScore = 0
  /\ watchI = 0
  /\ watchOutcomes = <<>>
  /\ watchResults = <<>>
  /\ watchInFlight = {}
  /\ watchEvents = <<>>
  /\ sectionPc = "idle"
  /\ sectionData = NULL
  /\ sectionOut = NULL
  /\ dedupPc = "idle"
  /\ dedupClock = 0
  /\ recentTweets = <<>>
  /\ freshResults = <<>>
  /\ tweetLog = <<>>
  /\ postPc = "idle"
  /\ postAttempt = 0
  /\ postLog = <<>>
  /\ postResult = NULL
  /\ mentionPc = "idle"
  /\ lastMentionId = NULL
  /\ mentionCount = 0
  /\ mentionPage = <<>>
  /\ mentionPos = 0
  /\ newestId = NULL

\* The bot started with an empty keys.json
InitAccess ==
  /\ buildPc = "idle"
  /\ token = NULL
  /\ tokenInfoResult = Pending
  /\ flowsResult = Pending
  /\ smartMoneyResult = Pending
  /\ cgResult = Pending
  /\ cgStage = "first"
  /\ report = NULL
  /\ resolvePc = "idle"
  /\ parsed = NULL
  /\ screener = NULL
  /\ searchStatus = ""
  /\ coins = <<>>
  /\ candidates = <<>>
  /\ idx = 1
  /\ detailLog = <<>>
  /\ contractLog = <<>>
  /\ resolved = NULL
  /\ resolveError = ""
  /\ parserPc = "received"
  /\ message = <<>>
  /\ gateResult = FALSE
  /\ parseResult = NULL
  /\ extractResult = NULL
  /\ keyStore = [u \in Users |-> NULL]
  /\ queryLog = [u \in Users |-> <<>>]
  /\ inFlight = {}
  /\ clock = 0
  /\ handlers = [h \in Slots |-> IdleHandler]
  /\ updatesLeft = Some(MaxUpdates)
  /\ tier = "free"
  /\ dryRun = FALSE
  /\ tweetsToday = 0
  /\ tweetsThisMonth = 0
  /\ tweetsPosted = 0
  /\ scanPc = "idle"
  /\ pollPc = "idle"
  /\ mentionsLeft = 0
  /\ partsLeft = 0
  /\ scorePc = "idle"
  /\ scoreInput = NULL
  /\ scoreOutput = NULL
  /\ watchPc = "idle"
  /\ watchTokens = 0
  /\ watchMinScore = 0
  /\ watchI = 0
  /\ watchOutcomes = <<>>
  /\ watchResults = <<>>
  /\ watchInFlight = {}
  /\ watchEvents = <<>>
  /\ sectionPc = "idle"
  /\ sectionData = NULL
  /\ sectionOut = NULL
  /\ dedupPc = "idle"
  /\ dedupClock = 0
  /\ recentTweets = <<>>
  /\ freshResults = <<>>
  /\ tweetLog = <<>>
  /\ postPc = "idle"
  /\ postAttempt = 0
  /\ postLog = <<>>
  /\ postResult = NULL
  /\ mentionPc = "idle"
  /\ lastMentionId = NULL
  /\ mentionCount = 0
  /\ mentionPage = <<>>
  /\ mentionPos = 0
  /\ newestId = NULL

\* The Twitter bot started on either tier, posting or in dry run
InitTwitter ==
  /\ buildPc = "idle"
  /\ token = NULL
  /\ tokenInfoResult = Pending
  /\ flowsResult = Pending
  /\ smartMoneyResult = Pending
  /\ cgResult = Pending
  /\ cgStage = "first"
  /\ report = NULL
  /\ resolvePc = "idle"
  /\ parsed = NULL
  /\ screener = NULL
  /\ searchStatus = ""
  /\ coins = <<>>
  /\ candidates = <<>>
  /\ idx = 1
  /\ detailLog = <<>>
  /\ contractLog = <<>>
  /\ resolved = NULL
  /\ resolveError = ""
  /\ parserPc = "received"
  /\ message = <<>>
  /\ gateResult = FALSE
  /\ parseResult = NULL
  /\ extractResult = NULL
  /\ keyStore = [u \in Users |-> NULL]
  /\ queryLog = [u \in Users |-> <<>>]
  /\ inFlight = {}
  /\ clock = 0
  /\ handlers = [h \in Slots |-> IdleHandler]
  /\ updatesLeft = NULL
  /\ tier \in Tiers
  /\ dryRun \in BOOLEAN
  /\ tweetsToday = 0
  /\ tweetsThisMonth = 0
  /\ tweetsPosted = 0
  /\ scanPc = "idle"
  /\ pollPc = "idle"
  /\ mentionsLeft = 0
  /\ partsLeft = 0
  /\ scorePc = "idle"
  /\ scoreInput = NULL
  /\ scoreOutput = NULL
  /\ watchPc = "idle"
  /\ watchTokens = 0
  /\ watchMinScore = 0
  /\ watchI = 0
  /\ watchOutcomes = <<>>
  /\ watchResults = <<>>
  /\ watchInFlight = {}
  /\ watchEvents = <<>>
  /\ sectionPc = "idle"
  /\ sectionData = NULL
  /\ sectionOut = NULL
  /\ dedupPc = "idle"
  /\ dedupClock = 0
  /\ recentTweets = <<>>
  /\ freshResults = <<>>
  /\ tweetLog = <<>>
  /\ postPc = "idle"
  /\ postAttempt = 0
  /\ postLog = <<>>
  /\ postResult = NULL
  /\ mentionPc = "idle"
  /\ lastMentionId = NULL
  /\ mentionCount = 0
  /\ mentionPage = <<>>
  /\ mentionPos = 0
  /\ newestId = NULL

\* A report has been handed to scoreReport
InitScore ==
  /\ buildPc = "idle"
  /\ token = NULL
  /\ tokenInfoResult = Pending
  /\ flowsResult = Pending
  /\ smartMoneyResult = Pending
  /\ cgResult = Pending
  /\ cgStage = "first"
  /\ report = NULL
  /\ resolvePc = "idle"
  /\ parsed = NULL
  /\ screener = NULL
  /\ searchStatus = ""
  /\ coins = <<>>
  /\ candidates = <<>>
  /\ idx = 1
  /\ detailLog = <<>>
  /\ contractLog = <<>>
  /\ resolved = NULL
  /\ resolveError = ""
  /\ parserPc = "received"
  /\ message = <<>>
  /\ gateResult = FALSE
  /\ parseResult = NULL
  /\ extractResult = NULL
  /\ keyStore = [u \in Users |-> NULL]
  /\ queryLog = [u \in Users |-> <<>>]
  /\ inFlight = {}
  /\ clock = 0
  /\ handlers = [h \in Slots |-> IdleHandler]
  /\ updatesLeft = NULL
  /\ tier = "free"
  /\ dryRun = FALSE
  /\ tweetsToday = 0
  /\ tweetsThisMonth = 0
  /\ tweetsPosted = 0
  /\ scanPc = "idle"
  /\ pollPc = "idle"
  /\ mentionsLeft = 0
  /\ partsLeft = 0
  /\ scorePc = "given"
  /\ scoreInput \in {Some(r) : r \in ScoreReports}
  /\ scoreOutput = NULL
  /\ watchPc = "idle"
  /\ watchTokens = 0
  /\ watchMinScore = 0
  /\ watchI = 0
  /\ watchOutcomes = <<>>
  /\ watchResults = <<>>
  /\ watchInFlight = {}
  /\ watchEvents = <<>>
  /\ sectionPc = "idle"
  /\ sectionData = NULL
  /\ sectionOut = NULL
  /\ dedupPc = "idle"
  /\ dedupClock = 0
  /\ recentTweets = <<>>
  /\ freshResults = <<>>
  /\ tweetLog = <<>>
  /\ postPc = "idle"
  /\ postAttempt = 0
  /\ postLog = <<>>
  /\ postResult = NULL
  /\ mentionPc = "idle"
  /\ lastMentionId = NULL
  /\ mentionCount = 0
  /\ mentionPage = <<>>
  /\ mentionPos = 0
  /\ newestId = NULL

\* scanWatchlist is about to be called with a list of tokens and a minScore
InitWatch ==
  /\ buildPc = "idle"
  /\ token = NULL
  /\ tokenInfoResult = Pending
  /\ flowsResult = Pending
  /\ smartMoneyResult = Pending
  /\ cgResult = Pending
  /\ cgStage = "first"
  /\ report = NULL
  /\ resolvePc = "idle"
  /\ parsed = NULL
  /\ screener = NULL
  /\ searchStatus = ""
  /\ coins = <<>>
  /\ candidates = <<>>
  /\ idx = 1
  /\ detailLog = <<>>
  /\ contractLog = <<>>
  /\ resolved = NULL
  /\ resolveError = ""
  /\ parserPc = "received"
  /\ message = <<>>
  /\ gateResult = FALSE
  /\ parseResult = NULL
  /\ extractResult = NULL
  /\ keyStore = [u \in Users |-> NULL]
  /\ queryLog = [u \in Users |-> <<>>]
  /\ inFlight = {}
  /\ clock = 0
  /\ handlers = [h \in Slots |-> IdleHandler]
  /\ updatesLeft = NULL
  /\ tier = "free"
  /\ dryRun = FALSE
  /\ tweetsToday = 0
  /\ tweetsThisMonth = 0
  /\ tweetsPosted = 0
  /\ scanPc = "idle"
  /\ pollPc = "idle"
  /\ mentionsLeft = 0
  /\ partsLeft = 0
  /\ scorePc = "idle"
  /\ scoreInput = NULL
  /\ scoreOutput = NULL
  /\ watchPc = "idle"
  /\ watchTokens \in 0..MaxTokens
  /\ watchMinScore \in {DefaultMinScore, DefaultMinScore + 15}
  /\ watchI = 0
  /\ watchOutcomes = <<>>
  /\ watchResults = <<>>
  /\ watchInFlight = {}
  /\ watchEvents = <<>>
  /\ sectionPc = "idle"
  /\ sectionData = NULL
  /\ sectionOut = NULL
  /\ dedupPc = "idle"
  /\ dedupClock = 0
  /\ recentTweets = <<>>
  /\ freshResults = <<>>
  /\ tweetLog = <<>>
  /\ postPc = "idle"
  /\ postAttempt = 0
  /\ postLog = <<>>
  /\ postResult = NULL
  /\ mentionPc = "idle"
  /\ lastMentionId = NULL
  /\ mentionCount = 0
  /\ mentionPage = <<>>
  /\ mentionPos = 0
  /\ newestId = NULL

\* buildSmartMoneySection is about to be called on the result of the smart-money fetch
InitSection ==
  /\ buildPc = "idle"
  /\ token = NULL
  /\ tokenInfoResult = Pending
  /\ flowsResult = Pending
  /\ smartMoneyResult = Pending
  /\ cgResult = Pending
  /\ cgStage = "first"
  /\ report = NULL
  /\ resolvePc = "idle"
  /\ parsed = NULL
  /\ screener = NULL
  /\ searchStatus = ""
  /\ coins = <<>>
  /\ candidates = <<>>
  /\ idx = 1
  /\ detailLog = <<>>
  /\ contractLog = <<>>
  /\ resolved = NULL
  /\ resolveError = ""
  /\ parserPc = "received"
  /\ message = <<>>
  /\ gateResult = FALSE
  /\ parseResult = NULL
  /\ extractResult = NULL
  /\ keyStore = [u \in Users |-> NULL]
  /\ queryLog = [u \in Users |-> <<>>]
  /\ inFlight = {}
  /\ clock = 0
  /\ handlers = [h \in Slots |-> IdleHandler]
  /\ updatesLeft = NULL
  /\ tier = "free"
  /\ dryRun = FALSE
  /\ tweetsToday = 0
  /\ tweetsThisMonth = 0
  /\ tweetsPosted = 0
  /\ scanPc = "idle"
  /\ pollPc = "idle"
  /\ mentionsLeft = 0
  /\ partsLeft = 0
  /\ scorePc = "idle"
  /\ scoreInput = NULL
  /\ scoreOutput = NULL
  /\ watchPc = "idle"
  /\ watchTokens = 0
  /\ watchMinScore = 0
  /\ watchI = 0
  /\ watchOutcomes = <<>>
  /\ watchResults = <<>>
  /\ watchInFlight = {}
  /\ watchEvents = <<>>
  /\ sectionPc = "given"
  /\ sectionData \in Opt({[buyers |-> b, sellers |-> s] : b \in RawBuyerLists, s \in RawSellerLists})
  /\ sectionOut = NULL
  /\ dedupPc = "idle"
  /\ dedupClock = 0
  /\ recentTweets = <<>>
  /\ freshResults = <<>>
  /\ tweetLog = <<>>
  /\ postPc = "idle"
  /\ postAttempt = 0
  /\ postLog = <<>>
  /\ postResult = NULL
  /\ mentionPc = "idle"
  /\ lastMentionId = NULL
  /\ mentionCount = 0
  /\ mentionPage = <<>>
  /\ mentionPos = 0
  /\ newestId = NULL

\* The Twitter bot has started and has tweeted nothing yet
InitDedup ==
  /\ buildPc = "idle"
  /\ token = NULL
  /\ tokenInfoResult = Pending
  /\ flowsResult = Pending
  /\ smartMoneyResult = Pending
  /\ cgResult = Pending
  /\ cgStage = "first"
  /\ report = NULL
  /\ resolvePc = "idle"
  /\ parsed = NULL
  /\ screener = NULL
  /\ searchStatus = ""
  /\ coins = <<>>
  /\ candidates = <<>>
  /\ idx = 1
  /\ detailLog = <<>>
  /\ contractLog = <<>>
  /\ resolved = NULL
  /\ resolveError = ""
  /\ parserPc = "received"
  /\ message = <<>>
  /\ gateResult = FALSE
  /\ parseResult = NULL
  /\ extractResult = NULL
  /\ keyStore = [u \in Users |-> NULL]
  /\ queryLog = [u \in Users |-> <<>>]
  /\ inFlight = {}
  /\ clock = 0
  /\ handlers = [h \in Slots |-> IdleHandler]
  /\ updatesLeft = NULL
  /\ tier = "free"
  /\ dryRun = FALSE
  /\ tweetsToday = 0
  /\ tweetsThisMonth = 0
  /\ tweetsPosted = 0
  /\ scanPc = "idle"
  /\ pollPc = "idle"
  /\ mentionsLeft = 0
  /\ partsLeft = 0
  /\ scorePc = "idle"
  /\ scoreInput = NULL
  /\ scoreOutput = NULL
  /\ watchPc = "idle"
  /\ watchTokens = 0
  /\ watchMinScore = 0
  /\ watchI = 0
  /\ watchOutcomes = <<>>
  /\ watchResults = <<>>
  /\ watchInFlight = {}
  /\ watchEvents = <<>>
  /\ sectionPc = "idle"
  /\ sectionData = NULL
  /\ sectionOut = NULL
  /\ dedupPc = "idle"
  /\ dedupClock = 0
  /\ recentTweets = <<>>
  /\ freshResults = <<>>
  /\ tweetLog = <<>>
  /\ postPc = "idle"
  /\ postAttempt = 0
  /\ postLog = <<>>
  /\ postResult = NULL
  /\ mentionPc = "idle"
  /\ lastMentionId = NULL
  /\ mentionCount = 0
  /\ mentionPage = <<>>
  /\ mentionPos = 0
  /\ newestId = NULL

\* A NansenClient method is about to call post
InitPost ==
  /\ buildPc = "idle"
  /\ token = NULL
  /\ tokenInfoResult = Pending
  /\ flowsResult = Pending
  /\ smartMoneyResult = Pending
  /\ cgResult = Pending
  /\ cgStage = "first"
  /\ report = NULL
  /\ resolvePc = "idle"
  /\ parsed = NULL
  /\ screener = NULL
  /\ searchStatus = ""
  /\ coins = <<>>
  /\ candidates = <<>>
  /\ idx = 1
  /\ detailLog = <<>>
  /\ contractLog = <<>>
  /\ resolved = NULL
  /\ resolveError = ""
  /\ parserPc = "received"
  /\ message = <<>>
  /\ gateResult = FALSE
  /\ parseResult = NULL
  /\ extractResult = NULL
  /\ keyStore = [u \in Users |-> NULL]
  /\ queryLog = [u \in Users |-> <<>>]
  /\ inFlight = {}
  /\ clock = 0
  /\ handlers = [h \in Slots |-> IdleHandler]
  /\ updatesLeft = NULL
  /\ tier = "free"
  /\ dryRun = FALSE
  /\ tweetsToday = 0
  /\ tweetsThisMonth = 0
  /\ tweetsPosted = 0
  /\ scanPc = "idle"
  /\ pollPc = "idle"
  /\ mentionsLeft = 0
  /\ partsLeft = 0
  /\ scorePc = "idle"
  /\ scoreInput = NULL
  /\ scoreOutput = NULL
  /\ watchPc = "idle"
  /\ watchTokens = 0
  /\ watchMinScore = 0
  /\ watchI = 0
  /\ watchOutcomes = <<>>
  /\ watchResults = <<>>
  /\ watchInFlight = {}
  /\ watchEvents = <<>>
  /\ sectionPc = "idle"
  /\ sectionData = NULL
  /\ sectionOut = NULL
  /\ dedupPc = "idle"
  /\ dedupClock = 0
  /\ recentTweets = <<>>
  /\ freshResults = <<>>
  /\ tweetLog = <<>>
  /\ postPc = "idle"
  /\ postAttempt = 0
  /\ postLog = <<>>
  /\ postResult = NULL
  /\ mentionPc = "idle"
  /\ lastMentionId = NULL
  /\ mentionCount = 0
  /\ mentionPage = <<>>
  /\ mentionPos = 0
  /\ newestId = NULL

\* A key owner with statistics and an allowlist, and a bounded number of updates
InitStats ==
  /\ buildPc = "idle"
  /\ token = NULL
  /\ tokenInfoResult = Pending
  /\ flowsResult = Pending
  /\ smartMoneyResult = Pending
  /\ cgResult = Pending
  /\ cgStage = "first"
  /\ report = NULL
  /\ resolvePc = "idle"
  /\ parsed = NULL
  /\ screener = NULL
  /\ searchStatus = ""
  /\ coins = <<>>
  /\ candidates = <<>>
  /\ idx = 1
  /\ detailLog = <<>>
  /\ contractLog = <<>>
  /\ resolved = NULL
  /\ resolveError = ""
  /\ parserPc = "received"
  /\ message = <<>>
  /\ gateResult = FALSE
  /\ parseResult = NULL
  /\ extractResult = NULL
  /\ keyStore \in {[u \in Users |-> IF u = 1 THEN Some(OwnerConfig(d)) ELSE NULL] : d \in BOOLEAN}
  /\ queryLog = [u \in Users |-> <<>>]
  /\ inFlight = {}
  /\ clock = MinuteMs
  /\ handlers = [h \in Slots |-> IdleHandler]
  /\ updatesLeft = Some(MaxUpdates - 2)
  /\ tier = "free"
  /\ dryRun = FALSE
  /\ tweetsToday = 0
  /\ tweetsThisMonth = 0
  /\ tweetsPosted = 0
  /\ scanPc = "idle"
  /\ pollPc = "idle"
  /\ mentionsLeft = 0
  /\ partsLeft = 0
  /\ scorePc = "idle"
  /\ scoreInput = NULL
  /\ scoreOutput = NULL
  /\ watchPc = "idle"
  /\ watchTokens = 0
  /\ watchMinScore = 0
  /\ watchI = 0
  /\ watchOutcomes = <<>>
  /\ watchResults = <<>>
  /\ watchInFlight = {}
  /\ watchEvents = <<>>
  /\ sectionPc = "idle"
  /\ sectionData = NULL
  /\ sectionOut = NULL
  /\ dedupPc = "idle"
  /\ dedupClock = 0
  /\ recentTweets = <<>>
  /\ freshResults = <<>>
  /\ tweetLog = <<>>
  /\ postPc = "idle"
  /\ postAttempt = 0
  /\ postLog = <<>>
  /\ postResult = NULL
  /\ mentionPc = "idle"
  /\ lastMentionId = NULL
  /\ mentionCount = 0
  /\ mentionPage = <<>>
  /\ mentionPos = 0
  /\ newestId = NULL

\* The mention poll of a free-tier bot that is at most two tweets below its daily limit
InitMentions ==
  /\ buildPc = "idle"
  /\ token = NULL
  /\ tokenInfoResult = Pending
  /\ flowsResult = Pending
  /\ smartMoneyResult = Pending
  /\ cgResult = Pending
  /\ cgStage = "first"
  /\ report = NULL
  /\ resolvePc = "idle"
  /\ parsed = NULL
  /\ screener = NULL
  /\ searchStatus = ""
  /\ coins = <<>>
  /\ candidates = <<>>
  /\ idx = 1
  /\ detailLog = <<>>
  /\ contractLog = <<>>
  /\ resolved = NULL
  /\ resolveError = ""
  /\ parserPc = "received"
  /\ message = <<>>
  /\ gateResult = FALSE
  /\ parseResult = NULL
  /\ extractResult = NULL
  /\ keyStore = [u \in Users |-> NULL]
  /\ queryLog = [u \in Users |-> <<>>]
  /\ inFlight = {}
  /\ clock = 0
  /\ handlers = [h \in Slots |-> IdleHandler]
  /\ updatesLeft = NULL
  /\ tier = "free"
  /\ dryRun = FALSE
  /\ tweetsToday \in (TIER_LIMITS("free").tweetsPerDay - 2)..TIER_LIMITS("free").tweetsPerDay
  /\ tweetsThisMonth = tweetsToday
  /\ tweetsPosted = 0
  /\ scanPc = "idle"
  /\ pollPc = "idle"
  /\ mentionsLeft = 0
  /\ partsLeft = 0
  /\ scorePc = "idle"
  /\ scoreInput = NULL
  /\ scoreOutput = NULL
  /\ watchPc = "idle"
  /\ watchTokens = 0
  /\ watchMinScore = 0
  /\ watchI = 0
  /\ watchOutcomes = <<>>
  /\ watchResults = <<>>
  /\ watchInFlight = {}
  /\ watchEvents = <<>>
  /\ sectionPc = "idle"
  /\ sectionData = NULL
  /\ sectionOut = NULL
  /\ dedupPc = "idle"
  /\ dedupClock = 0
  /\ recentTweets = <<>>
  /\ freshResults = <<>>
  /\ tweetLog = <<>>
  /\ postPc = "idle"
  /\ postAttempt = 0
  /\ postLog = <<>>
  /\ postResult = NULL
  /\ mentionPc = "idle"
  /\ lastMentionId = NULL
  /\ mentionCount = 0
  /\ mentionPage = <<>>
  /\ mentionPos = 0
  /\ newestId = NULL

\* The report builder alone
SpecBuild == Init /\ [][BuildNext]_vars

\* The resolver of src/core/resolver.ts alone
SpecResolve == Init /\ [][ResolveNext]_vars

\* The parser functions applied to a message text
SpecParse == InitParse /\ [][ParserNext]_vars

\* The query guard under token queries and passing time
SpecGuard == InitGuard /\ [][GuardNext]_vars

\* The key store and the access rules under every Telegram update
SpecAccess == InitAccess /\ [][AccessNext]_vars

\* The scheduled scan and the mention poll of the Twitter bot
SpecTwitter == InitTwitter /\ [][TwitterNext]_vars

\* scoreReport applied to a report
SpecScore == InitScore /\ [][ScoreNext]_vars

\* One call of scanWatchlist
SpecWatch == InitWatch /\ [][WatchNext]_vars

\* One call of buildSmartMoneySection
SpecSection == InitSection /\ [][SectionNext]_vars

\* Scheduled scans over a day and a half
SpecDedup == InitDedup /\ [][DedupNext]_vars

\* One request of the analytics client
SpecPost == InitPost /\ [][PostNext]_vars

\* One request whose fetches settle and whose timers fire
SpecPostLive == InitPost /\ [][PostNext]_vars /\ WF_vars(PostNext)

\* Queries and key changes against the statistics
SpecStats == InitStats /\ [][StatsNext]_vars

\* The same scenario with the scheduling the event loop gives: a handler that
\* has passed the checks runs on, and every awaited lookup or reply settles
SpecStatsLive ==
  /\ InitStats
  /\ [][StatsNext]_vars
  /\ WF_vars(ExecuteStart \/ ExecuteUnparsed)
  /\ WF_vars(ExecuteFinish \/ ExecuteThrows \/ LookupFails)
  /\ WF_vars(ErrorReplyDone)

\* The mention poll alone
SpecMentions == InitMentions /\ [][MentionNext]_vars

----------------------------------------------------------------------------
(* Properties of the report builder, checked under SpecBuild *)

\* What each call contributed: its value when it fulfilled with one, else nothing
GotTokenInfo == tokenInfoResult.status = "fulfilled" /\ tokenInfoResult.value # NULL
GotFlows == flowsResult.status = "fulfilled" /\ flowsResult.value # NULL
GotSmartMoney == smartMoneyResult.status = "fulfilled" /\ smartMoneyResult.value # NULL
GotMarketData == cgResult.status = "fulfilled" /\ cgResult.value # NULL

\* The analytics provider's and the market-data provider's value of a field
AnalyticsValue(f) == IF GotTokenInfo THEN tokenInfoResult.value[1][f] ELSE NULL
MarketValue(f) == IF GotMarketData THEN cgResult.value[1][f] ELSE NULL

\* C1: buildTokenReport never throws; whichever of its calls reject or return
\* nothing, it returns a report whose fields fed only by failed calls are null or
\* empty and whose fields fed by the calls that succeeded carry their values.
C1_PartialReport ==
  /\ buildPc # "thrown"
  /\ buildPc = "done" =>
       /\ report # NULL
       /\ ~GotTokenInfo =>
            /\ report[1].liquidityUsd = NULL
            /\ report[1].holderCount = NULL
            /\ report[1].tokenAgeDays = NULL
            /\ report[1].token = token[1]
       /\ GotTokenInfo =>
            /\ report[1].liquidityUsd = tokenInfoResult.value[1].liquidity
            /\ report[1].holderCount = tokenInfoResult.value[1].holder_count
       /\ ~GotFlows => report[1].flows = <<>>
       /\ GotFlows =>
            /\ Len(report[1].flows) = 6
            /\ report[1].flows[1].netFlowUsd = flowsResult.value[1].smart_trader_net_flow_usd
            /\ report[1].flows[2].netFlowUsd = flowsResult.value[1].whale_net_flow_usd
            /\ report[1].flows[4].walletCount = flowsResult.value[1].exchange_wallet_count
       /\ ~GotSmartMoney =>
            report[1].smartMoney = [buySell |-> NULL, topBuyers |-> <<>>, topSellers |-> <<>>]
       /\ GotSmartMoney => report[1].smartMoney.buySell # NULL
       /\ ~GotMarketData => report[1].priceChange24h = NULL
       /\ GotMarketData => report[1].priceChange24h = cgResult.value[1].priceChange24h
       /\ (~GotTokenInfo /\ ~GotMarketData) =>
            /\ report[1].priceUsd = NULL
            /\ report[1].marketCapUsd = NULL
            /\ report[1].fdvUsd = NULL
            /\ report[1].volume24hUsd = NULL

\* C1 witness: every call failed or returned nothing, three of them by rejecting,
\* and a report came back
C1_AllFailedWitness ==
  /\ buildPc = "done"
  /\ tokenInfoResult.status = "rejected"
  /\ flowsResult.status = "rejected"
  /\ smartMoneyResult.status = "rejected"
  /\ ~GotMarketData
  /\ report # NULL

\* analytics value when there is one, else the market-data value
Preferred(a, m) == IF a # NULL THEN a ELSE m

\* C2: price, market cap, FDV and 24h volume are the analytics provider's value
\* when it has one and otherwise the market-data provider's (null when neither has
\* one); the 24h price change is always the market-data provider's.
C2_MergePolicy ==
  buildPc = "done" =>
    /\ report[1].priceUsd = Preferred(AnalyticsValue("price"), MarketValue("priceUsd"))
    /\ report[1].marketCapUsd =
         Preferred(AnalyticsValue("market_cap"), MarketValue("marketCapUsd"))
    /\ report[1].fdvUsd = Preferred(AnalyticsValue("fdv"), MarketValue("fdvUsd"))
    /\ report[1].volume24hUsd =
         Preferred(AnalyticsValue("volume"), MarketValue("volume24hUsd"))
    /\ report[1].priceChange24h = MarketValue("priceChange24h")
    /\ (AnalyticsValue("price") = NULL /\ MarketValue("priceUsd") = Some(7)) =>
         report[1].priceUsd = Some(7)

\* C2 witness: analytics price 5 and market-data price 7 give 5
C2_PreferAnalyticsWitness ==
  /\ buildPc = "done"
  /\ AnalyticsValue("price") = Some(5)
  /\ MarketValue("priceUsd") = Some(7)
  /\ report[1].priceUsd = Some(5)

----------------------------------------------------------------------------
(* Properties of the resolver, checked under SpecResolve *)

IsAddressQuery == parsed # NULL /\ parsed[1].isContractAddress
IsSymbolQuery == parsed # NULL /\ ~parsed[1].isContractAddress

\* The chain the query names: the hint, else the chain its address format implies
NamedChain ==
  IF parsed[1].chainHint # NULL THEN parsed[1].chainHint ELSE parsed[1].inferredChain

NoContractHit == \A i \in 1..Len(contractLog) : ~contractLog[i].hit

\* C3: for a contract address resolveToken never fails; when no lookup succeeds it
\* returns the placeholder token on the named chain, or on ethereum without one.
C3_AddressNeverFails ==
  IsAddressQuery =>
    /\ resolvePc # "failed"
    /\ resolveError = ""
    /\ (resolvePc = "done" /\ NoContractHit) =>
         /\ resolved # NULL
         /\ resolved[1].name = "Unknown Token"
         /\ resolved[1].symbol = "???"
         /\ resolved[1].address = parsed[1].query
         /\ resolved[1].chain = IF NamedChain # NULL THEN NamedChain[1] ELSE "ethereum"

\* C3 witness: a hinted address whose only lookup failed
C3_DegradedWitness ==
  /\ IsAddressQuery
  /\ resolvePc = "done"
  /\ parsed[1].chainHint = Some("base")
  /\ Len(contractLog) = 1
  /\ NoContractHit
  /\ resolved[1].chain = "base"

\* C4: with a chain hint, a symbol query returns a token on the hinted chain or
\* fails; it never returns a token on another chain.
C4_HintRespected ==
  (IsSymbolQuery /\ parsed[1].chainHint # NULL /\ resolved # NULL) =>
    resolved[1].chain = parsed[1].chainHint[1]

\* C4 witness: the native entry of the first candidate lives on another chain and
\* has no address on the hinted platform; the second candidate is returned
C4_SkippedNativeWitness ==
  /\ IsSymbolQuery
  /\ parsed[1].chainHint = Some("base")
  /\ resolvePc = "done"
  /\ idx = 2
  /\ candidates[1].id = "ethereum"
  /\ resolved[1].chain = "base"

SearchFoundNothing == searchStatus = "ok" /\ coins = <<>>

AllCandidatesTried ==
  /\ candidates # <<>>
  /\ idx > Len(candidates)
  /\ resolvePc # "candidates"

C6_NullRanksLast ==
  \A i, j \in 1..Len(candidates) :
    i < j =>
      /\ ~(candidates[i].market_cap_rank = NULL /\ candidates[j].market_cap_rank # NULL)
      /\ (candidates[i].market_cap_rank # NULL /\ candidates[j].market_cap_rank # NULL) =>
           candidates[i].market_cap_rank[1] <= candidates[j].market_cap_rank[1]

\* C7: without a named chain the lookup-by-contract endpoint is queried one chain
\* at a time in the priority order from ethereum on, stopping at the first chain
\* that answers, which is the chain returned; with a named chain only it is queried.
C7_ChainOrder ==
  IsAddressQuery =>
    LET n == Len(contractLog)
    IN  /\ NamedChain = NULL =>
             /\ \A i \in 1..n : contractLog[i].chain = CHAINS_TO_TRY[i]
             /\ n >= 1 => contractLog[1].chain = "ethereum"
             /\ (resolvePc = "done" /\ NoContractHit) => n = Len(CHAINS_TO_TRY)
        /\ NamedChain # NULL =>
             /\ n <= 1
             /\ \A i \in 1..n : contractLog[i].chain = NamedChain[1]
        /\ \A i \in 1..(n - 1) : ~contractLog[i].hit
        /\ (n >= 1 /\ contractLog[n].hit) =>
             /\ resolvePc = "done"
             /\ resolved[1].chain = contractLog[n].chain

\* C7 witness: no named chain, ethereum and base miss, arbitrum answers
C7_ThirdChainWitness ==
  /\ IsAddressQuery
  /\ NamedChain = NULL
  /\ resolvePc = "done"
  /\ Len(contractLog) = 3
  /\ contractLog[3].hit
  /\ resolved[1].chain = "arbitrum"

\* The native table applies to candidate k: its id is in the table and the hint is
\* absent or is the entry's chain
NativeApplies(k) ==
  /\ candidates[k].id \in DOMAIN NATIVE_TOKEN_MAP
  /\ \/ parsed[1].chainHint = NULL
     \/ parsed[1].chainHint[1] = NATIVE_TOKEN_MAP[candidates[k].id].chain

\* C8: candidates are handled in order and the native table is consulted before
\* any coin-detail request: where the table applies the entry is returned at once,
\* with no coin-detail request for that candidate or any later one.
C8_NativeFirst ==
  IsSymbolQuery =>
    /\ Len(detailLog) <= Len(candidates)
    /\ \A i \in 1..Len(detailLog) : detailLog[i] = candidates[i].id
    /\ \A k \in 1..Len(candidates) :
         NativeApplies(k) =>
           /\ Len(detailLog) < k
           /\ idx <= k
           /\ (idx = k /\ resolvePc # "candidates") =>
                /\ resolvePc = "done"
                /\ resolved = Some(NATIVE_TOKEN_MAP[candidates[k].id])

\* C8 witness: the second of three candidates is native; one coin-detail request
\* was made, for the first
C8_NativeSecondWitness ==
  /\ IsSymbolQuery
  /\ resolvePc = "done"
  /\ Len(candidates) = 3
  /\ idx = 2
  /\ NativeApplies(2)
  /\ detailLog = <<candidates[1].id>>
  /\ resolved[1].coingeckoId # NULL

\* C9 as claimed: a symbol whose search found nothing is looked up in the analytics
\* token screener, and when the screener has it the resolver returns the screener's
\* chain and address with the upper-cased symbol as name instead of failing.
C9_ScreenerFallback ==
  (IsSymbolQuery /\ SearchFoundNothing /\ screener # NULL) =>
    /\ resolvePc # "failed"
    /\ resolvePc = "done" =>
         /\ resolved[1].chain = screener[1].chain
         /\ resolved[1].address = screener[1].token_address
         /\ resolved[1].name = ToUpperCase(screener[1].token_symbol)

----------------------------------------------------------------------------
(* Properties of the parser functions, checked under SpecParse *)

\* The first character of the trimmed text is the dollar sign
StartsWithDollar == Trim(message) # <<>> /\ Trim(message)[1] = "$"

\* C10 as claimed: every text that parseUserInput turns into a ParsedInput is
\* accepted by isTokenQuery.
C10_GateAcceptsAllParsed ==
  (parserPc = "parsed" /\ parseResult # NULL) => gateResult

\* C10 as amended: every text that parseUserInput turns into a ParsedInput is
\* accepted by isTokenQuery when the ParsedInput is a contract address or the
\* first word starts with the dollar sign.
C10_GateAcceptsAddressOrDollar ==
  (/\ parserPc = "parsed"
   /\ parseResult # NULL
   /\ (parseResult[1].isContractAddress \/ StartsWithDollar)) => gateResult

\* C10 witness: a one-letter symbol behind a dollar sign, which no pattern for
\* symbols inside a sentence matches, is parsed and accepted
C10_DollarWitness ==
  /\ parserPc = "parsed"
  /\ parseResult # NULL
  /\ ~parseResult[1].isContractAddress
  /\ StartsWithDollar
  /\ ~DOLLAR_SYMBOL_RE(Trim(message))
  /\ gateResult

\* The text was parsed
Parsed == parserPc \in {"parsed", "extracted"}

\* The words of the text, and the first of them without its $ prefix
MessageWords == Split(Trim(message))
Subject == StripDollar(MessageWords[1])

\* C11 as claimed: every text from which extractTokenQuery extracts a query is
\* accepted by isTokenQuery, a $SYMBOL followed by punctuation included.
C11_GateCoversExtractor ==
  (parserPc = "extracted" /\ extractResult # NULL) => gateResult

\* C12: the subject is classified EVM first, then Tron, then Solana, else symbol:
\* 0x + 40 hex is an address with no inferred chain; else T + 33 base58 is an
\* address on tron; else 32 to 44 base58 is an address on solana; addresses keep
\* their case; everything else is an upper-cased symbol.
C12_ClassificationPriority ==
  (Parsed /\ Trim(message) # <<>> /\ Subject # <<>>) =>
    /\ parseResult # NULL
    /\ LET r == parseResult[1]
       IN  /\ EVM_ADDRESS_RE(Subject) =>
                r.isContractAddress /\ r.inferredChain = NULL /\ r.query = Subject
           /\ (~EVM_ADDRESS_RE(Subject) /\ TRON_ADDRESS_RE(Subject)) =>
                r.isContractAddress /\ r.inferredChain = Some("tron") /\ r.query = Subject
           /\ (~EVM_ADDRESS_RE(Subject) /\ ~TRON_ADDRESS_RE(Subject)
                 /\ SOLANA_ADDRESS_RE(Subject)) =>
                r.isContractAddress /\ r.inferredChain = Some("solana") /\ r.query = Subject
           /\ (~EVM_ADDRESS_RE(Subject) /\ ~TRON_ADDRESS_RE(Subject)
                 /\ ~SOLANA_ADDRESS_RE(Subject)) =>
                ~r.isContractAddress /\ r.inferredChain = NULL /\ r.query = StrUpper(Subject)

\* C12 witness: a Tron address, which also fits the Solana grammar, parsed as tron
C12_TronWitness ==
  /\ Parsed
  /\ TRON_ADDRESS_RE(Subject)
  /\ SOLANA_ADDRESS_RE(Subject)
  /\ parseResult # NULL
  /\ parseResult[1].inferredChain = Some("tron")

\* C13: for a text whose first word has no $ prefix, parsing the text with a $ put
\* in front gives the same ParsedInput in all four fields; a symbol is the
\* upper-cased first word and the chain hint is the chain of the first following
\* alias, whatever its case.
C13_DollarPrefixIgnored ==
  (Parsed /\ Trim(message) # <<>> /\ Trim(message)[1] # "$") =>
    /\ parseUserInput(<<"$">> \o Trim(message)) = parseResult
    /\ parseResult # NULL
    /\ ~parseResult[1].isContractAddress => parseResult[1].query = StrUpper(MessageWords[1])
    /\ \A i \in 2..Len(MessageWords) :
         (/\ AliasChain(StripDollar(StrLower(MessageWords[i]))) # NULL
          /\ \A j \in 2..(i - 1) : AliasChain(StripDollar(StrLower(MessageWords[j]))) = NULL)
         => parseResult[1].chainHint = AliasChain(StripDollar(StrLower(MessageWords[i])))

\* C13 witness: a bare symbol followed by an upper-case alias behind a $
C13_UpperAliasWitness ==
  /\ Parsed
  /\ Len(MessageWords) >= 2
  /\ MessageWords[1] = <<"P", "E", "P", "E">>
  /\ MessageWords[2] = <<"$", "S", "O", "L">>
  /\ parseResult # NULL
  /\ parseResult[1].query = <<"P", "E", "P", "E">>
  /\ parseResult[1].chainHint = Some("solana")

\* A $SYMBOL that is no chain alias stands inside the text, behind a first word
\* that is neither a $-prefixed word nor an address
EmbeddedSymbol ==
  /\ Trim(message) # <<>>
  /\ Trim(message)[1] # "$"
  /\ ~EVM_ADDRESS_RE(MessageWords[1])
  /\ ~TRON_ADDRESS_RE(MessageWords[1])
  /\ ~SOLANA_ADDRESS_RE(MessageWords[1])
  /\ DOLLAR_SYMBOL_RE(Trim(message))
  /\ AliasChain(StrLower(Tail(DollarSymbolMatch(Trim(message))[1]))) = NULL

\* C20 as claimed: when a message passes the gate because a $SYMBOL stands inside
\* conversational text, the subject parsed for the resolver is that SYMBOL.
C20_EmbeddedSymbolIsSubject ==
  (Parsed /\ gateResult /\ EmbeddedSymbol) =>
    /\ parseResult # NULL
    /\ parseResult[1].query = StrUpper(Tail(DollarSymbolMatch(Trim(message))[1]))


----------------------------------------------------------------------------
(* Telegram query guard *)

\* The handlers that are inside handleTokenQuery for a user
RunningFor(userId) ==
  {h \in Slots : handlers[h].pc \in {"running", "failing"} /\ handlers[h].user = userId}

ExecutedIn(userId, from, window) ==
  Len(SelectSeq(queryLog[userId], LAMBDA t : from <= t /\ t < from + window))

----------------------------------------------------------------------------
(* Telegram key store and access rules *)

\* Handler h passes runSecurityChecks in this step
Granted(h) == handlers[h].pc = "idle" /\ handlers'[h].pc = "checked"

\* C16: while a key owner has DM-only mode on, no query in a group chat is
\* granted that owner's API key, for the owner or for a user on the owner's
\* allowlist
C16_DmOnlyKeepsKeyOutOfGroups ==
  [][\A h \in Slots :
       (Granted(h) /\ ~IsPrivate(handlers'[h].chat))
         => ~getDmOnly(keyStore, handlers'[h].owner)]_vars

\* Handler h answers a token query with the onboarding message in this step
RefusedNoKey(h) ==
  /\ handlers[h].pc = "idle"
  /\ handlers'[h].pc = "replying"
  /\ handlers'[h].reason = "nokey"

\* C17: a token query of a user without a key of their own is granted an
\* owner's key only in a group whose allowlist of that owner contains the user
\* at that moment, and is refused for want of a key only when the chat is
\* private or no owner's allowlist for that group contains the user
C17_AllowlistAccess ==
  [][\A h \in Slots :
       /\ (Granted(h) /\ handlers'[h].owner # handlers'[h].user)
            => /\ keyStore[handlers'[h].user] = NULL
               /\ ~IsPrivate(handlers'[h].chat)
               /\ handlers'[h].user \in
                    keyStore[handlers'[h].owner][1].allowedUsers[handlers'[h].chat]
       /\ RefusedNoKey(h)
            => /\ keyStore[handlers'[h].user] = NULL
               /\ \/ IsPrivate(handlers'[h].chat)
                  \/ \A o \in Users :
                       \/ keyStore[o] = NULL
                       \/ handlers'[h].user \notin
                            keyStore[o][1].allowedUsers[handlers'[h].chat]]_vars

\* A keyless user's query is running on the key of an owner who allowed it
C17_GuestServedWitness ==
  \E h \in Slots :
    /\ handlers[h].pc = "running"
    /\ handlers[h].owner # handlers[h].user
    /\ keyStore[handlers[h].user] = NULL

----------------------------------------------------------------------------
(* Twitter usage limits *)

\* C19: the tweets the bot has posted never exceed the daily or the monthly
\* limit of the configured tier, every tweet of every reply thread and every
\* scheduled tweet counted, under any interleaving of the scheduled scan and
\* the mention poll
C19_TweetsWithinTier ==
  /\ tweetsPosted <= TIER_LIMITS(tier).tweetsPerDay
  /\ tweetsPosted <= TIER_LIMITS(tier).tweetsPerMonth

----------------------------------------------------------------------------
(* Interest score of the watchlist scanner *)

Scored == scorePc = "scored"
ScoredReport == scoreInput[1]
ScoreOf == scoreOutput[1].score
SignalsOf == scoreOutput[1].signals

\* The signals whose first piece is one of `heads`
SignalsWith(heads) == SelectSeq(SignalsOf, LAMBDA sig : Head(sig) \in heads)

SmNetSignals == SignalsWith({"SM net "})
OnlySmNetSignals == SignalsOf = SmNetSignals

\* |net| of the smart-money section, -1 when the section has no data
SmNetSize ==
  IF ScoredReport.smartMoney.buySell = NULL THEN -1
  ELSE Abs(ScoredReport.smartMoney.buySell[1].netFlowUsd)

\* C21: the smart-money net-flow tiers are hard >= cutoffs on |net|: from
\* $1,000,000 exactly +30 and one "$x.yM" signal (not the +15 tier as well),
\* from $500,000 to below $1,000,000 exactly +15 and one "$xK" signal, below
\* $500,000 nothing; net flow of exactly $1,000,000 alone scores 30 with
\* "SM net buying $1.0M", and $999,999 alone scores 15 with a "$...K" signal
C21_SmartMoneyTiers ==
  Scored =>
    /\ SmNetSize >= 1000000
         => /\ Len(SmNetSignals) = 1
            /\ SmNetSignals[1][Len(SmNetSignals[1])] = "M"
            /\ OnlySmNetSignals => ScoreOf = 30
    /\ (SmNetSize >= 500000 /\ SmNetSize < 1000000)
         => /\ Len(SmNetSignals) = 1
            /\ SmNetSignals[1][Len(SmNetSignals[1])] = "K"
            /\ OnlySmNetSignals => ScoreOf = 15
    /\ SmNetSize < 500000 => SmNetSignals = <<>>
    /\ (SmNetSize = 1000000 /\ OnlySmNetSignals
          /\ ScoredReport.smartMoney.buySell[1].netFlowUsd > 0)
         => SignalsOf = << <<"SM net ", "buying", " $", "1", ".", "0", "M">> >>
    /\ (SmNetSize = 999999 /\ OnlySmNetSignals)
         => SignalsOf = << <<"SM net ", "buying", " $", "1000", "K">> >>

\* A report with net flow of exactly $1,000,000 and no other signal was scored 30
C21_ExactMillionWitness ==
  /\ Scored
  /\ SmNetSize = 1000000
  /\ OnlySmNetSignals
  /\ ScoreOf = 30

\* The segment's ratio and amount reach the thresholds
Hot(flow) ==
  /\ flow.avgFlowUsd # 0
  /\ flow.walletCount # 0
  /\ Abs(flow.netFlowUsd) >= 3 * Abs(flow.avgFlowUsd)
  /\ Abs(flow.netFlowUsd) >= 100000

\* The first piece of the ratio signal of a segment
RatioHead(flow) == IF flow.name = "Exchanges" THEN "Exchange outflow " ELSE flow.name

SegmentHeads == {"Smart Traders", "Whales", "Public Figures", "Exchanges",
                 "Top PnL Traders", "Fresh Wallets", "Exchange outflow "}

\* C22: a segment with real data whose |net/avg| >= 3 and |net| >= $100,000
\* adds +25 when it is Smart Traders or Whales (inflow or outflow), +15 when
\* it is Exchanges with negative net flow, and nothing otherwise; below either
\* threshold nothing is added
C22_SegmentBonus ==
  Scored =>
    /\ \A i \in 1..Len(ScoredReport.flows) :
         LET flow == ScoredReport.flows[i]
             fires == /\ Hot(flow)
                      /\ \/ flow.name \in {"Smart Traders", "Whales"}
                         \/ flow.name = "Exchanges" /\ flow.netFlowUsd < 0
         IN Len(SignalsWith({RatioHead(flow)})) = IF fires THEN 1 ELSE 0
    /\ SignalsWith({"Public Figures", "Exchanges", "Top PnL Traders", "Fresh Wallets"}) = <<>>
    /\ SignalsOf = SignalsWith(SegmentHeads)
         => ScoreOf = 25 * Len(SignalsWith({"Smart Traders", "Whales"}))
                      + 15 * Len(SignalsWith({"Exchange outflow "}))

\* Smart Traders and an Exchanges outflow both earned their bonus, while a hot
\* segment of another name earned none
C22_BothBonusesWitness ==
  /\ Scored
  /\ Len(SignalsWith({"Smart Traders"})) = 1
  /\ Len(SignalsWith({"Exchange outflow "})) = 1
  /\ \E i \in 1..Len(ScoredReport.flows) :
       ScoredReport.flows[i].name = "Public Figures" /\ Hot(ScoredReport.flows[i])

\* C23: a segment with walletCount = 0 or avgFlowUsd = 0 never earns the
\* ratio bonus, whatever its other fields, and scoreReport still returns
C23_NoDataSegmentSkipped ==
  Scored =>
    /\ scoreOutput # NULL
    /\ \A i \in 1..Len(ScoredReport.flows) :
         LET flow == ScoredReport.flows[i]
         IN (flow.walletCount = 0 \/ flow.avgFlowUsd = 0)
              => SignalsWith({RatioHead(flow)}) = <<>>

\* A segment without wallets whose net flow is four times a non-zero average,
\* and a segment with a zero average, were scored
C23_DegenerateSegmentsWitness ==
  /\ Scored
  /\ \E i \in 1..Len(ScoredReport.flows) :
       /\ ScoredReport.flows[i].name = "Smart Traders"
       /\ ScoredReport.flows[i].walletCount = 0
       /\ ScoredReport.flows[i].avgFlowUsd # 0
       /\ Abs(ScoredReport.flows[i].netFlowUsd) >= 3 * Abs(ScoredReport.flows[i].avgFlowUsd)
  /\ \E i \in 1..Len(ScoredReport.flows) :
       /\ ScoredReport.flows[i].name = "Whales"
       /\ ScoredReport.flows[i].avgFlowUsd = 0
       /\ ScoredReport.flows[i].netFlowUsd # 0

BuySellSignals == SelectSeq(SignalsOf, LAMBDA sig : sig[Len(sig)] = ":1 buy/sell ratio")
SellBuySignals == SelectSeq(SignalsOf, LAMBDA sig : sig[Len(sig)] = ":1 sell/buy ratio")

\* C24: with smart-money data, buyerCount >= 3 x sellerCount with at least
\* one buyer adds +20 once with a buy/sell-ratio signal, sellerCount >= 3 x
\* buyerCount with at least one seller adds +20 once with the sell/buy signal,
\* and any less lopsided ratio adds nothing for this row
C24_BuyerSellerRatio ==
  (Scored /\ ScoredReport.smartMoney.buySell # NULL) =>
    LET buyers == ScoredReport.smartMoney.buySell[1].buyerCount
        sellers == ScoredReport.smartMoney.buySell[1].sellerCount
    IN /\ Len(BuySellSignals) = IF buyers >= 3 * sellers /\ buyers >= 1 THEN 1 ELSE 0
       /\ Len(SellBuySignals) = IF sellers >= 3 * buyers /\ sellers >= 1 THEN 1 ELSE 0
       /\ (SignalsOf # <<>> /\ SignalsOf = BuySellSignals \o SellBuySignals)
            => ScoreOf = 20

\* The points of every row of the table, each looked at on its own
RowPoints ==
  LET bs == ScoredReport.smartMoney.buySell
  IN << IF bs = NULL THEN 0 ELSE SmNetPoints(bs[1].netFlowUsd),
        IF bs = NULL THEN 0 ELSE RatioPoints(bs[1].buyerCount, bs[1].sellerCount) >>
     \o [i \in 1..Len(ScoredReport.flows) |-> SegmentPoints(ScoredReport.flows[i])]
     \o << WhalePoints(ScoredReport.flows), PricePoints(ScoredReport.priceChange24h) >>

RECURSIVE SumSeq(_)
SumSeq(q) == IF q = <<>> THEN 0 ELSE Head(q) + SumSeq(Tail(q))

\* C25: the score is the sum of the points of every row whose condition
\* holds, with no early exit and no cap; the signals list has one entry per
\* row that fired, and the score is 0 exactly when there is no signal
C25_ScoreIsSumOfRows ==
  Scored =>
    /\ ScoreOf = SumSeq(RowPoints)
    /\ Len(SignalsOf) = Len(SelectSeq(RowPoints, LAMBDA pts : pts > 0))
    /\ (ScoreOf = 0) <=> (SignalsOf = <<>>)

\* The net-flow tier, the buyer/seller ratio, two segment bonuses, the whale
\* row and the price row all fired for one report
C25_AllRowsStackWitness ==
  /\ Scored
  /\ Len(SignalsOf) >= 6
  /\ ScoreOf >= 30 + 20 + 25 + 25 + 20 + 10

----------------------------------------------------------------------------
(* Watchlist scan *)

Returned == watchPc = "returned"

\* Tokens whose report was built and scored
ScoredTokens == {i \in 0..(Len(watchOutcomes) - 1) : watchOutcomes[i + 1] # NULL}

TokenScore(i) == watchOutcomes[i + 1][1]

\* Tokens whose build or scoring threw
FailedTokens == {i \in 0..(Len(watchOutcomes) - 1) : watchOutcomes[i + 1] = NULL}

ResultTokens == {watchResults[p].token : p \in 1..Len(watchResults)}

\* C26: scanWatchlist returns exactly the tokens whose score is at least
\* minScore (a score equal to minScore is kept), each once and with its score,
\* ordered by descending score, equal scores in watchlist order.
C26_FilteredAndSorted ==
  Returned =>
    /\ ResultTokens = {i \in ScoredTokens : TokenScore(i) >= watchMinScore}
    /\ Len(watchResults) = Cardinality(ResultTokens)
    /\ \A p \in 1..Len(watchResults) :
         watchResults[p].interestScore = TokenScore(watchResults[p].token)
    /\ \A p, q \in 1..Len(watchResults) :
         p < q =>
           /\ watchResults[p].interestScore >= watchResults[q].interestScore
           /\ watchResults[p].interestScore = watchResults[q].interestScore
                => watchResults[p].token < watchResults[q].token

\* A scan returned a token scoring exactly minScore, two tokens of equal
\* score, a later token ahead of an earlier one, and left a lower score out
C26_ThresholdAndTieWitness ==
  /\ Returned
  /\ watchMinScore = DefaultMinScore
  /\ \E p \in 1..Len(watchResults) : watchResults[p].interestScore = watchMinScore
  /\ \E p, q \in 1..Len(watchResults) :
       /\ p < q
       /\ watchResults[p].interestScore = watchResults[q].interestScore
  /\ \E p, q \in 1..Len(watchResults) :
       p < q /\ watchResults[p].token > watchResults[q].token
  /\ \E i \in ScoredTokens : TokenScore(i) < watchMinScore

\* C27: scanWatchlist never fails: a token whose build or scoring throws is
\* left out of the results, every token of the list is still tried, and the
\* tokens that did not fail are returned as if the failing ones were absent.
C27_FailuresAreSkipped ==
  /\ watchPc # "failed"
  /\ Returned =>
       /\ Len(watchOutcomes) = watchTokens
       /\ ResultTokens \cap FailedTokens = {}
       /\ \A i \in ScoredTokens : TokenScore(i) >= watchMinScore => i \in ResultTokens
       /\ [p \in 1..Len(watchResults) |-> watchResults[p].interestScore]
            = [p \in 1..Len(watchResults) |->
                 SortByScore(SelectSeq([k \in 1..Len(watchOutcomes) |->
                                          [interestScore |->
                                             IF watchOutcomes[k] = NULL THEN -1
                                             ELSE watchOutcomes[k][1]]],
                                       LAMBDA r : r.interestScore >= watchMinScore))[p]
                   .interestScore]

\* A scan returned a token that comes after a failing one
C27_FailureThenResultWitness ==
  /\ Returned
  /\ \E i \in FailedTokens : \E j \in ResultTokens : i < j

EventAt(k) == watchEvents[k]

\* C28: the tokens are processed one after another in list order: at most one
\* buildTokenReport is in flight, the build of the next token starts only after
\* the previous build has settled and the delay has elapsed, and no delay
\* follows the last token.
C28_SequentialWithDelay ==
  /\ Cardinality(watchInFlight) <= 1
  /\ \A k \in 1..Len(watchEvents) :
       /\ EventAt(k)[1] = "build" =>
            IF EventAt(k)[2] = 0 THEN k = 1
            ELSE /\ k > 3
                 /\ EventAt(k - 1) = <<"woke", EventAt(k)[2] - 1>>
                 /\ EventAt(k - 2) = <<"sleep", EventAt(k)[2] - 1>>
                 /\ EventAt(k - 3) = <<"settled", EventAt(k)[2] - 1>>
       /\ EventAt(k)[1] = "settled" => k > 1 /\ EventAt(k - 1) = <<"build", EventAt(k)[2]>>
       /\ EventAt(k)[1] = "sleep" => EventAt(k)[2] < watchTokens - 1
       /\ EventAt(k)[1] = "return" =>
            /\ EventAt(k)[2] = watchTokens
            /\ IF watchTokens = 0 THEN k = 1
               ELSE k > 1 /\ EventAt(k - 1) = <<"settled", watchTokens - 1>>

\* A scan of several tokens returned after sleeping between them
C28_DelayedScanWitness ==
  /\ Returned
  /\ watchTokens = MaxTokens
  /\ \E k \in 1..Len(watchEvents) : EventAt(k) = <<"sleep", watchTokens - 2>>
  /\ FailedTokens # {}

----------------------------------------------------------------------------
(* Smart-money section *)

SectionBuilt == sectionPc = "built" /\ sectionData # NULL

\* Positions of the entries of a raw list whose volume is strictly positive
PositiveAt(list, f) == {k \in 1..Len(list) : list[k][f] # NULL /\ list[k][f][1] > 0}

\* Sum of the strictly positive volumes of a raw list
PositiveSum(list, f) ==
  SumSeq([k \in 1..Len(list) |-> IF k \in PositiveAt(list, f) THEN list[k][f][1] ELSE 0])

\* C29: boughtVolumeUsd is the sum of bought volume over exactly the buyers
\* whose volume is strictly positive, soldVolumeUsd likewise over the sellers,
\* and netFlowUsd is their difference; an entry whose volume is zero, missing
\* or otherwise not strictly positive contributes nothing.
C29_SumsOverPositiveVolumes ==
  SectionBuilt =>
    LET bs == sectionOut[1].buySell[1]
    IN  /\ bs.boughtVolumeUsd = PositiveSum(sectionData[1].buyers, "bought_volume_usd")
        /\ bs.soldVolumeUsd = PositiveSum(sectionData[1].sellers, "sold_volume_usd")
        /\ bs.netFlowUsd = bs.boughtVolumeUsd - bs.soldVolumeUsd

\* One side of the section against its raw list
SideAsClaimed(list, f, count, top) ==
  LET pos == PositiveAt(list, f)
      shown == {k \in pos : \E p \in 1..Len(top) : top[p].label = list[k].address_label}
  IN  /\ count = Cardinality(pos)
      /\ Len(top) = IF count < 3 THEN count ELSE 3
      /\ Cardinality(shown) = Len(top)
      /\ \A p \in 1..Len(top) :
           /\ top[p].volumeUsd > 0
           /\ \E k \in pos : /\ top[p].label = list[k].address_label
                             /\ top[p].volumeUsd = list[k][f][1]
      /\ \A p, q \in 1..Len(top) : p < q => top[p].volumeUsd >= top[q].volumeUsd
      /\ \A k \in pos \ shown : \A p \in 1..Len(top) : list[k][f][1] <= top[p].volumeUsd

\* C30: buyerCount and sellerCount are the numbers of traders with strictly
\* positive volume on their side, topBuyers and topSellers hold min(3, count)
\* of them, in non-increasing volume order, no omitted trader having a larger
\* volume than an included one, and the raw lists are left unmodified.
C30_CountsAndTopThree ==
  [][ (sectionPc = "given" /\ sectionData # NULL) =>
        /\ sectionData' = sectionData
        /\ SideAsClaimed(sectionData[1].buyers, "bought_volume_usd",
                         sectionOut'[1].buySell[1].buyerCount, sectionOut'[1].topBuyers)
        /\ SideAsClaimed(sectionData[1].sellers, "sold_volume_usd",
                         sectionOut'[1].buySell[1].sellerCount, sectionOut'[1].topSellers)
    ]_vars

\* A section built from five unsorted buyers, four with positive volume and
\* one without, and from five sellers
C30_TruncatedTopWitness ==
  /\ SectionBuilt
  /\ Len(sectionData[1].buyers) = 5
  /\ sectionOut[1].buySell[1].buyerCount = 4
  /\ Len(sectionOut[1].topBuyers) = 3
  /\ sectionOut[1].topBuyers[1].volumeUsd > sectionOut[1].topBuyers[3].volumeUsd
  /\ sectionData[1].buyers[1].bought_volume_usd = Some(3)
  /\ sectionOut[1].buySell[1].sellerCount = 5

----------------------------------------------------------------------------
(* Attribution and identity of the report, checked under SpecBuild *)

BuildDone == buildPc = "done"

\* A provider returned a non-null price or market cap
AnalyticsUsable == AnalyticsValue("price") # NULL \/ AnalyticsValue("market_cap") # NULL
MarketUsable == MarketValue("priceUsd") # NULL \/ MarketValue("marketCapUsd") # NULL

\* C31: dataSource is 'both' when both providers returned a non-null price or
\* market cap, 'nansen' when only the analytics provider did, 'coingecko' when
\* only the market-data provider did, 'none' when neither did, and so 'none'
\* whenever both providers' calls failed.
C31_DataSourceTag ==
  BuildDone =>
    /\ report[1].dataSource =
         IF AnalyticsUsable /\ MarketUsable THEN "both"
         ELSE IF AnalyticsUsable THEN "nansen"
         ELSE IF MarketUsable THEN "coingecko"
         ELSE "none"
    /\ (~GotTokenInfo /\ ~GotMarketData) => report[1].dataSource = "none"

\* Both providers returned a market cap and no price, and the tag is 'both'
C31_MarketCapOnlyWitness ==
  /\ BuildDone
  /\ AnalyticsValue("price") = NULL
  /\ AnalyticsValue("market_cap") # NULL
  /\ MarketValue("priceUsd") = NULL
  /\ MarketValue("marketCapUsd") # NULL
  /\ report[1].dataSource = "both"

\* The merged figures as pairs of the analytics and the market-data field
MergedFigures ==
  { <<"price", "priceUsd">>, <<"market_cap", "marketCapUsd">>, <<"fdv", "fdvUsd">>,
    <<"volume", "volume24hUsd">> }

\* A figure of the report carries the analytics / the market-data provider's value
ShownFromAnalytics == \E fig \in MergedFigures : AnalyticsValue(fig[1]) # NULL
ShownFromMarket ==
  \/ MarketValue("priceChange24h") # NULL
  \/ \E fig \in MergedFigures : AnalyticsValue(fig[1]) = NULL /\ MarketValue(fig[2]) # NULL

\* C32: whenever a market figure of the report carries a value taken from a
\* provider, dataSource includes that provider, and dataSource is 'none' only
\* when price, market cap, FDV, 24h volume and 24h change are all null.
C32_TagNamesSuppliers ==
  BuildDone =>
    /\ ShownFromAnalytics => report[1].dataSource \in {"both", "nansen"}
    /\ ShownFromMarket => report[1].dataSource \in {"both", "coingecko"}
    /\ report[1].dataSource = "none" =>
         /\ report[1].priceUsd = NULL
         /\ report[1].marketCapUsd = NULL
         /\ report[1].fdvUsd = NULL
         /\ report[1].volume24hUsd = NULL
         /\ report[1].priceChange24h = NULL

\* The name and the symbol the analytics provider returned ("" counts as none)
ProviderName ==
  IF AnalyticsValue("name") # NULL /\ AnalyticsValue("name") # Some("")
  THEN AnalyticsValue("name") ELSE NULL
ProviderSymbol ==
  IF AnalyticsValue("symbol") # NULL /\ AnalyticsValue("symbol") # Some("")
  THEN AnalyticsValue("symbol") ELSE NULL

\* The resolver's name says nothing: "Unknown Token" or the bare ticker
PlaceholderName == token[1].name = "Unknown Token" \/ token[1].name = token[1].symbol

\* C33: report.token.name is the provider's name exactly when the provider
\* returned one and the resolver's name was a placeholder, else the resolver's
\* name; report.token.symbol is the provider's symbol upper-cased whenever it
\* returned one, else the resolver's; chain and address never change.
C33_IdentityPatch ==
  BuildDone =>
    /\ report[1].token.name =
         IF ProviderName # NULL /\ PlaceholderName THEN ProviderName[1] ELSE token[1].name
    /\ report[1].token.symbol =
         IF ProviderSymbol # NULL THEN ToUpperCase(ProviderSymbol[1]) ELSE token[1].symbol
    /\ report[1].token.chain = token[1].chain
    /\ report[1].token.address = token[1].address

\* A token named by its bare ticker got the provider's name and symbol
C33_TickerReplacedWitness ==
  /\ BuildDone
  /\ token[1].name = "PEPE"
  /\ report[1].token.name = "Pepe Coin"
  /\ ProviderSymbol = Some("pepe")
  /\ report[1].token.symbol = "PEPE"

\* C34: buildTokenReport never modifies the ResolvedToken passed to it: the
\* name and symbol patches go to a copy held in report.token, so a token
\* object handed to successive builds is the same after any number of them.
C34_ArgumentTokenUntouched ==
  [][ token # NULL =>
        /\ token' = token
        /\ (buildPc' = "done" /\ buildPc # "done") =>
             report'[1].token = PatchObjects(token[1], ValueOf(tokenInfoResult)).reportToken
    ]_vars

\* A report carries a patched name and symbol while the token it was built
\* from still has its own
C34_PatchedCopyWitness ==
  /\ BuildDone
  /\ token[1].name = "Unknown Token"
  /\ token[1].symbol = "???"
  /\ report[1].token.name = "Pepe Coin"
  /\ report[1].token.symbol = "PEPE"

----------------------------------------------------------------------------
(* Scheduled tweets, checked under SpecDedup *)

\* The period in which a token is not to be tweeted about twice
DedupDayHours == 24

\* C35: the scheduled scan never tweets about a token that it already tweeted
\* about within the last 24 hours; in particular, no tweet goes out when every
\* interesting token was tweeted in that period.
C35_NoRepeatWithinDay ==
  \A i, j \in 1..Len(tweetLog) :
    (i < j /\ tweetLog[i].symbol = tweetLog[j].symbol)
      => tweetLog[j].at - tweetLog[i].at >= DedupDayHours

----------------------------------------------------------------------------
(* Retries of the analytics client, checked under SpecPostLive *)

PostDone == postPc \in {"returned", "thrown"}

FetchCount == Len(SelectSeq(postLog, LAMBDA e : e.kind = "fetch"))

\* The number of the attempt that the k-th entry of the log belongs to
AttemptOfEntry(k) == Len(SelectSeq(SubSeq(postLog, 1, k), LAMBDA e : e.kind = "fetch")) - 1

\* C36: every request ends after at most 3 HTTP attempts: a 429 is retried
\* after 1 s, 2 s, 4 s, any other failure after a linearly growing pause, and
\* in the end the request has returned the body or raised an error.
C36_BoundedRetries ==
  /\ [](/\ FetchCount <= 3
        /\ \A k \in 1..Len(postLog) :
             postLog[k].kind = "sleep" =>
               postLog[k].n = IF postLog[k].why = "429"
                                THEN <<1000, 2000, 4000>>[AttemptOfEntry(k) + 1]
                              ELSE <<1000, 2000>>[AttemptOfEntry(k) + 1]
        /\ PostDone => postResult # NULL
        /\ postPc = "returned" => postResult[1].kind = "body"
        /\ postPc = "thrown" => postResult[1].kind = "error")
  /\ <>PostDone

\* Three rate-limit answers in a row: pauses of 1 s, 2 s and 4 s, then an error
C36_ThreeRateLimitsWitness ==
  /\ postPc = "thrown"
  /\ FetchCount = 3
  /\ SelectSeq(postLog, LAMBDA e : e.kind = "sleep")
       = << [kind |-> "sleep", n |-> 1000, why |-> "429"],
            [kind |-> "sleep", n |-> 2000, why |-> "429"],
            [kind |-> "sleep", n |-> 4000, why |-> "429"] >>
  /\ postResult = Some([kind |-> "error", value |-> "Max retries exceeded"])

----------------------------------------------------------------------------
(* Usage statistics and the in-flight mark, checked under SpecStats *)

StatsOf(store, userId) ==
  [queryCount |-> store[userId][1].queryCount, lastQueryAt |-> store[userId][1].lastQueryAt]

\* A handler of the user's query leaves handleTokenQuery's lookup with the
\* report sent (or with the typing indicator failing) in this step
LookupLeftBy(userId) ==
  \E h \in Slots :
    /\ handlers[h].user = userId
    /\ handlers[h].pc = "running"
    /\ handlers'[h].pc = "idle"

\* C37: a user's queryCount and lastQueryAt change only at the end of a query
\* whose lookup succeeded, by one count each time; a query whose input could
\* not be parsed, whose token could not be resolved or that otherwise ended in
\* an error reply leaves them alone.
C37_CountOnlySuccessfulQueries ==
  [][\A u \in Users :
       (keyStore[u] # NULL /\ keyStore'[u] # NULL
          /\ StatsOf(keyStore', u) # StatsOf(keyStore, u))
         => /\ keyStore'[u][1].queryCount = keyStore[u][1].queryCount + 1
            /\ LookupLeftBy(u)]_vars

\* Handlers that hold a passed security check of the user or are inside
\* executeTokenQuery for them
StartedFor(userId) ==
  {h \in Slots : handlers[h].pc \in {"checked", "running", "failing"}
                 /\ handlers[h].user = userId}

\* C38: every started token query eventually clears its user's in-flight
\* mark, whether the lookup succeeds, ends with an error reply or throws: a
\* user is marked only while a query of theirs is inside handleTokenQuery
\* (so the next query after it is not rejected as concurrent), and no mark
\* stays forever
C38_InFlightMarkCleared ==
  /\ [](\A u \in Users : RunningFor(u) = {} => u \notin inFlight)
  /\ \A u \in Users : (u \in inFlight) ~> (u \notin inFlight)

\* The owner's query was started and has ended by a throw (it is recorded but
\* was not counted), and the owner is not marked
C38_ThrownQueryUnmarkedWitness ==
  /\ Len(queryLog[1]) = 1
  /\ keyStore[1] # NULL
  /\ keyStore[1][1].queryCount = OwnerConfig(FALSE).queryCount
  /\ StartedFor(1) = {}
  /\ 1 \notin inFlight

----------------------------------------------------------------------------
(* Mention poll, checked under SpecMentions *)

\* runMentionPoll saves the mention id in this step
SavesMentionId == mentionPc = "saving" /\ mentionPc' = "idle"

\* The mentions of the page the loop did not get past: the one at which
\* canTweet failed and those after it (none when the loop ran to its end)
CutShort == {mentionPage[k] : k \in mentionPos..Len(mentionPage)}

\* C39: a mention whose processing was cut short because the tweet limit was
\* reached is not lost: the saved lastMentionId is below the id of the mention
\* at which the limit was hit and of every mention of the page not yet
\* examined, so a later poll returns them again
C39_CutShortMentionsKept ==
  [][SavesMentionId =>
       \A m \in CutShort : lastMentionId' = NULL \/ lastMentionId'[1] < m]_vars

----------------------------------------------------------------------------
(* Replacing a key, checked under SpecStats *)

\* Handler h stores the validated key of its /setkey in this step
SetKeySaved(h) ==
  /\ handlers[h].pc = "validating"
  /\ handlers'[h].pc = "replying"
  /\ handlers'[h].reason = "saved"

\* C40: setKey(user, key) changes only that user's stored apiKey: the user's
\* dmOnly flag, query statistics and per-group allowlists, and every other
\* user's entry, are the same after the call as before
C40_SetKeyChangesOnlyApiKey ==
  [][\A h \in Slots :
       SetKeySaved(h) =>
         /\ keyStore'[handlers[h].user] # NULL
         /\ keyStore'[handlers[h].user][1].apiKey = handlers[h].apiKey
         /\ \A v \in Users \ {handlers[h].user} : keyStore'[v] = keyStore[v]
         /\ keyStore[handlers[h].user] # NULL =>
              /\ keyStore'[handlers[h].user][1].dmOnly = keyStore[handlers[h].user][1].dmOnly
              /\ StatsOf(keyStore', handlers[h].user) = StatsOf(keyStore, handlers[h].user)
              /\ keyStore'[handlers[h].user][1].allowedUsers
                   = keyStore[handlers[h].user][1].allowedUsers]_vars

==============================================================================
